---- MODULE Spec2Model ----
(***************************************************************************)
(* podcast-generate: text segmentation, concurrent synthesis fan-out and   *)
(* fan-in, waveform reassembly, BGM mix planning and the batch loop of     *)
(* src/src/voiceService.ts (the cli with generateAudio), with the engine   *)
(* client of src/unnamed/part_000.                                         *)
(*                                                                         *)
(* A text is a sequence of one-character strings.  "." stands for the      *)
(* sentence terminator U+3002 of the source.                               *)
(***************************************************************************)
EXTENDS Integers, Sequences, FiniteSets, TLC

VARIABLES
  \* ---- splitText applied to one input
  sText, sMax, sChunks, sRe, sPc,
  \* ---- combineAudioBuffers applied to one input
  cIn, cOut, cPc,
  \* ---- the BGM branch of generateAudio: durations and the ffmpeg command
  voiceDuration, bgmDuration, command, bPc,
  \* ---- a generate / batch-generate command
  cmd, scriptFiles, filesToProcess, options, fileIdx, batchPc, runPc, calls,
  completedCount, outOfOrder, lineResults, audioBuffers,
  finalCombineCalled, fsys, outcome,
  \* ---- isDialogueScript and parseDialogueScript applied to one content
  pOrigin, pContent, pIsDialogue, pParsed, pPc,
  \* ---- the dispatch of the units of a parsed script (generateAudio 440-485)
  pDefaults, pUnits,
  \* ---- the two-level reassembly of dialogue mode applied to one input
  rLines, rLineResults, rTwoLevel, rPc,
  \* ---- the engine container and the command the cli is running
  container, dockerInstalled, dCmd, dPc, dFrom, dExit, dPrepared, dRequested, dCount

splitVars   == <<sText, sMax, sChunks, sRe, sPc>>
combineVars == <<cIn, cOut, cPc>>
bgmVars     == <<voiceDuration, bgmDuration, command, bPc>>
runVars     == <<cmd, scriptFiles, filesToProcess, options, fileIdx, batchPc, runPc, calls,
                 completedCount, outOfOrder, lineResults, audioBuffers,
                 finalCombineCalled, fsys, outcome>>
parseVars   == <<pOrigin, pContent, pIsDialogue, pParsed, pPc, pDefaults, pUnits>>
reassembleVars == <<rLines, rLineResults, rTwoLevel, rPc>>
dockerVars  == <<container, dockerInstalled, dCmd, dPc, dFrom, dExit, dPrepared,
                 dRequested, dCount>>
vars        == <<splitVars, combineVars, bgmVars, runVars, parseVars, reassembleVars,
                 dockerVars>>

(***************************************************************************)
(* Bounds of the model.                                                    *)
(***************************************************************************)
MaxTextLen   == 5   \* longest text given to splitText on its own
MaxMaxLength == 3   \* largest maxLength given to splitText on its own
MaxBuffers   == 3   \* longest list given to combineAudioBuffers on its own
MaxDuration  == 12  \* longest voice / BGM duration of the mix plan
MaxFiles     == 3   \* most documents of one batch
\* The default maxLength of splitText is 600; the documents of the run model
\* are a few characters long, so the run model scales the default down.
RunMaxLength == 2
\* MAX_TEXT_LENGTH of generateAudio is 100000; scaled down likewise (it
\* stays above the length of every document that is to pass validation).
MAX_TEXT_LENGTH == 16
MaxRawLen    == 4   \* longest content given to the parser character by character
MaxPairs     == 2   \* most key=value pairs of a dialogue line given to the parser
MaxLines     == 2   \* most dialogue lines of a reassembly on its own
MaxCommands  == 3   \* most cli commands run one after the other

(***************************************************************************)
(* Strings.                                                                *)
(***************************************************************************)
Period     == "."
Whitespace == {" ", "\n"}
Alphabet   == {"a", "b", Period, " "}

\* String.prototype.substring(start) on a 0-based start index
Substring(s, start) == SubSeq(s, start + 1, Len(s))

\* String.prototype.substring(0, end)
Prefix(s, end) == SubSeq(s, 1, IF end < Len(s) THEN end ELSE Len(s))

\* String.prototype.lastIndexOf(ch): 0-based index, -1 when absent
IndexOf(s, ch) ==
  LET hits == {k \in 1..Len(s) : s[k] = ch}
  IN  IF hits = {} THEN -1
      ELSE (CHOOSE k \in hits : \A j \in hits : k <= j) - 1
LastIndexOf(s, ch) ==
  LET hits == {k \in 1..Len(s) : s[k] = ch}
  IN  IF hits = {} THEN -1
      ELSE (CHOOSE k \in hits : \A j \in hits : j <= k) - 1

\* String.prototype.trim(): removes leading and trailing whitespace
Trim(s) ==
  LET keep == {k \in 1..Len(s) : s[k] \notin Whitespace}
  IN  IF keep = {} THEN <<>>
      ELSE SubSeq(s, CHOOSE k \in keep : \A j \in keep : k <= j,
                     CHOOSE k \in keep : \A j \in keep : j <= k)

RECURSIVE Concat(_)
Concat(ss) == IF ss = <<>> THEN <<>> ELSE Head(ss) \o Concat(Tail(ss))

(***************************************************************************)
(* splitText (voiceService.ts 213-236).                                    *)
(***************************************************************************)
\* line 223: the prefix in which the terminator is searched
SearchWindowWhole(remainingText, maxLength) == remainingText
SearchWindow(remainingText, maxLength) == Prefix(remainingText, maxLength)

\* line 228: what remains after a cut behind the terminator
PeriodCutRemainderSkip(remainingText, lastPeriodIndex) ==
  Trim(Substring(remainingText, lastPeriodIndex + 2))
PeriodCutRemainder(remainingText, lastPeriodIndex) ==
  Trim(Substring(remainingText, lastPeriodIndex + 1))

\* line 231: what remains after a hard cut
HardCutRemainder(remainingText, maxLength) ==
  Trim(Substring(remainingText, maxLength))

RECURSIVE SplitLoop(_, _, _)
SplitLoop(remainingText, maxLength, chunks) ==
  IF Len(remainingText) = 0 THEN chunks
  ELSE IF Len(remainingText) <= maxLength THEN Append(chunks, remainingText)
  ELSE LET chunk == SearchWindow(remainingText, maxLength)
           lastPeriodIndex == LastIndexOf(chunk, Period)
       IN  IF lastPeriodIndex # -1
           THEN SplitLoop(PeriodCutRemainder(remainingText, lastPeriodIndex),
                          maxLength,
                          Append(chunks, Prefix(remainingText, lastPeriodIndex + 1)))
           ELSE SplitLoop(HardCutRemainder(remainingText, maxLength),
                          maxLength,
                          Append(chunks, chunk))

SplitText(text, maxLength) == SplitLoop(text, maxLength, <<>>)

(***************************************************************************)
(* WAV buffers.  A buffer is its header and its sample payload.  The riff  *)
(* field says what the Reader of the wav package finds: "ok" (a header     *)
(* with the format), "corrupt" (no RIFF header: the Reader emits 'error')  *)
(* or "short" (too short to hold a header: the Reader ends without a       *)
(* 'format' event and without data).                                       *)
(***************************************************************************)
Format(ch, rate, depth) == [channels |-> ch, sampleRate |-> rate, bitDepth |-> depth]
Formats  == {Format(1, 24000, 16), Format(2, 24000, 16),
             Format(1, 48000, 16), Format(1, 24000, 8)}
NoFormat == Format(0, 0, 0)

WavBuffer(format, payload) == [riff |-> "ok", format |-> format, payload |-> payload]
CorruptBuffer(payload)     == [riff |-> "corrupt", format |-> NoFormat, payload |-> payload]
ShortBuffer                == [riff |-> "short", format |-> NoFormat, payload |-> <<>>]

\* new Writer(format), write(data), end(): the encoded buffer
Encode(format, data) == WavBuffer(format, data)

\* the Reader's events on one buffer: 'error', or 'format' and 'data', then 'end'
Decode(buffer) ==
  IF buffer.riff = "corrupt"
  THEN [error |-> TRUE, hasFormat |-> FALSE, format |-> NoFormat, data |-> <<>>]
  ELSE IF buffer.riff = "short"
  THEN [error |-> FALSE, hasFormat |-> FALSE, format |-> NoFormat, data |-> <<>>]
  ELSE [error |-> FALSE, hasFormat |-> TRUE, format |-> buffer.format,
        data |-> buffer.payload]

Resolved(buffer)  == [ok |-> TRUE, buffer |-> buffer, error |-> ""]
Rejected(message) == [ok |-> FALSE, buffer |-> ShortBuffer, error |-> message]

(***************************************************************************)
(* combineAudioBuffers (voiceService.ts 261-354).                          *)
(***************************************************************************)
\* lines 270-353: the decode loop (the format is taken from the first
\* buffer alone), the concatenation and the re-encoding
DecodeAndEncodeLastFormat(audioBuffers_) ==
  LET n == Len(audioBuffers_)
      decoded == [k \in 1..n |-> Decode(audioBuffers_[k])]
  IN  IF \E k \in 1..n : decoded[k].error
      THEN Rejected("decode error")
      ELSE IF n = 0 \/ ~decoded[n].hasFormat
      THEN Rejected("Failed to read WAV format from first file")
      ELSE Resolved(Encode(decoded[n].format,
                           Concat([k \in 1..n |-> decoded[k].data])))
DecodeAndEncode(audioBuffers_) ==
  LET n == Len(audioBuffers_)
      decoded == [k \in 1..n |-> Decode(audioBuffers_[k])]
  IN  IF \E k \in 1..n : decoded[k].error
      THEN Rejected("decode error")
      ELSE IF n = 0 \/ ~decoded[1].hasFormat
      THEN Rejected("Failed to read WAV format from first file")
      ELSE Resolved(Encode(decoded[1].format,
                           Concat([k \in 1..n |-> decoded[k].data])))

CombineNoShortcut(audioBuffers_) ==
  IF Len(audioBuffers_) = 0 THEN Rejected("No audio buffers to combine")
  ELSE DecodeAndEncode(audioBuffers_)

CombineEmptyOk(audioBuffers_) ==
  IF Len(audioBuffers_) = 0 THEN Resolved(ShortBuffer)
  ELSE IF Len(audioBuffers_) = 1 THEN Resolved(audioBuffers_[1])
  ELSE DecodeAndEncode(audioBuffers_)

CombineAudioBuffers(audioBuffers_) ==
  IF Len(audioBuffers_) = 0 THEN Rejected("No audio buffers to combine")
  ELSE IF Len(audioBuffers_) = 1 THEN Resolved(audioBuffers_[1])
  ELSE DecodeAndEncode(audioBuffers_)

(***************************************************************************)
(* The BGM branch of generateAudio (voiceService.ts 591-631): the ffmpeg   *)
(* command built from the two durations.  Durations are positive whole     *)
(* numbers of one time unit.                                               *)
(***************************************************************************)
\* line 597: Math.ceil(voiceDuration / bgmDuration)
LoopCountFloor(voiceDuration_, bgmDuration_) == voiceDuration_ \div bgmDuration_
LoopCount(voiceDuration_, bgmDuration_) ==
  (voiceDuration_ + bgmDuration_ - 1) \div bgmDuration_

\* line 595: the background is looped only when it is shorter than the voice
NeedsLoopAlways(voiceDuration_, bgmDuration_) == TRUE
NeedsLoop(voiceDuration_, bgmDuration_) == bgmDuration_ < voiceDuration_

\* lines 594-631: inputs and filter graph of the mix
MixCommand(voiceDuration_, bgmDuration_) ==
  IF NeedsLoop(voiceDuration_, bgmDuration_)
  THEN LET loopCount == LoopCount(voiceDuration_, bgmDuration_)
       IN  [inputs   |-> <<"voice">> \o [k \in 1..loopCount |-> "bgm"],
            concatN  |-> loopCount,
            concatInputs |-> [k \in 1..loopCount |-> k],
            filters  |-> <<"concat", "volume", "amix">>]
  ELSE [inputs   |-> <<"voice", "bgm">>,
        concatN  |-> 0,
        concatInputs |-> <<>>,
        filters  |-> <<"volume", "amix">>]

(***************************************************************************)
(* Idle values: each specification below leaves the state of the others    *)
(* at these.                                                               *)
(***************************************************************************)
IdleSplit   == sText = <<>> /\ sMax = 1 /\ sChunks = <<>> /\ sRe = <<>> /\ sPc = "idle"
IdleCombine == cIn = <<>> /\ cOut = Rejected("") /\ cPc = "idle"
IdleBgm     == voiceDuration = 1 /\ bgmDuration = 1 /\ command = <<>> /\ bPc = "idle"
IdleParse   ==
  /\ pOrigin = <<>> /\ pContent = <<>> /\ pIsDialogue = FALSE /\ pParsed = <<>> /\ pPc = "idle"
  /\ pDefaults = <<>> /\ pUnits = <<>>
IdleReassemble ==
  rLines = <<>> /\ rLineResults = <<>> /\ rTwoLevel = Rejected("") /\ rPc = "idle"
IdleDocker  ==
  /\ container = "not-present" /\ dockerInstalled = FALSE /\ dCmd = "none" /\ dPc = "off"
  /\ dFrom = "not-present" /\ dExit = "none" /\ dPrepared = FALSE /\ dRequested = FALSE
  /\ dCount = 0
IdleRun     ==
  /\ cmd = "none" /\ scriptFiles = <<>> /\ filesToProcess = <<>> /\ options = <<>> /\ fileIdx = 0
  /\ batchPc = "idle" /\ runPc = "idle" /\ calls = <<>> /\ completedCount = 0
  /\ outOfOrder = FALSE
  /\ lineResults = <<>> /\ audioBuffers = <<>> /\ finalCombineCalled = <<>>
  /\ fsys = <<>> /\ outcome = <<>>

(***************************************************************************)
(* splitText on its own: every text over the alphabet up to MaxTextLen,    *)
(* every maxLength up to MaxMaxLength; then the chunks are concatenated    *)
(* and split again.                                                        *)
(***************************************************************************)
Texts(n) == UNION {[1..k -> Alphabet] : k \in 0..n}

InitSplit ==
  /\ sText \in Texts(MaxTextLen)
  /\ sMax \in 1..MaxMaxLength
  /\ sChunks = <<>> /\ sRe = <<>> /\ sPc = "input"
  /\ IdleCombine /\ IdleBgm /\ IdleRun /\ IdleParse /\ IdleReassemble /\ IdleDocker

DoSplit ==
  /\ sPc = "input"
  /\ sChunks' = SplitText(sText, sMax)
  /\ sPc' = "split"
  /\ UNCHANGED <<sText, sMax, sRe, combineVars, bgmVars, runVars, parseVars, reassembleVars, dockerVars>>

DoReSplit ==
  /\ sPc = "split"
  /\ sRe' = SplitText(Concat(sChunks), sMax)
  /\ sPc' = "resplit"
  /\ UNCHANGED <<sText, sMax, sChunks, combineVars, bgmVars, runVars, parseVars, reassembleVars, dockerVars>>

NextSplit == DoSplit \/ DoReSplit
SpecSplit == InitSplit /\ [][NextSplit]_vars

(***************************************************************************)
(* combineAudioBuffers on its own: every list of up to MaxBuffers buffers. *)
(***************************************************************************)
Payloads == {<<>>, <<1>>, <<2>>}
Buffers  == {WavBuffer(h, p) : h \in Formats, p \in Payloads}
              \cup {CorruptBuffer(<<1>>), ShortBuffer}
BufferLists(n) == UNION {[1..k -> Buffers] : k \in 0..n}

InitCombine ==
  /\ cIn \in BufferLists(MaxBuffers)
  /\ cOut = Rejected("") /\ cPc = "input"
  /\ IdleSplit /\ IdleBgm /\ IdleRun /\ IdleParse /\ IdleReassemble /\ IdleDocker

DoCombine ==
  /\ cPc = "input"
  /\ cOut' = CombineAudioBuffers(cIn)
  /\ cPc' = "done"
  /\ UNCHANGED <<cIn, splitVars, bgmVars, runVars, parseVars, reassembleVars, dockerVars>>

NextCombine == DoCombine
SpecCombine == InitCombine /\ [][NextCombine]_vars

(***************************************************************************)
(* The reassembly of dialogue mode on its own (voiceService.ts 487-506 and *)
(* 563): up to MaxLines lines of one or two chunk buffers each, already in *)
(* chunkIndex and lineIndex order.                                         *)
(***************************************************************************)
ReassemblyBuffers ==
  { WavBuffer(Format(1, 24000, 16), <<1>>), WavBuffer(Format(1, 24000, 16), <<2>>),
    WavBuffer(Format(2, 24000, 16), <<2>>), WavBuffer(Format(1, 24000, 16), <<>>),
    CorruptBuffer(<<1>>), ShortBuffer }
ChunkBufferLists == UNION {[1..n -> ReassemblyBuffers] : n \in {1, 2}}

InitReassemble ==
  /\ rLines \in UNION {[1..n -> ChunkBufferLists] : n \in 1..MaxLines}
  /\ rLineResults = <<>> /\ rTwoLevel = Rejected("") /\ rPc = "input"
  /\ IdleSplit /\ IdleCombine /\ IdleBgm /\ IdleRun /\ IdleParse /\ IdleDocker

\* lines 487-498: combineAudioBuffers(sortedChunks) of every line
CombineEachLine(lines) == [l \in 1..Len(lines) |-> CombineAudioBuffers(lines[l])]

\* lines 502-506 and 563: await Promise.all(audioPromises) throws when a
\* line combine has; otherwise the line buffers are combined
CombineLineResultsFirstOnly(results) ==
  IF \E l \in 1..Len(results) : ~results[l].ok
  THEN Rejected("line combine failed")
  ELSE Resolved(results[1].buffer)
CombineLineResults(results) ==
  IF \E l \in 1..Len(results) : ~results[l].ok
  THEN Rejected("line combine failed")
  ELSE CombineAudioBuffers([l \in 1..Len(results) |-> results[l].buffer])

DoLineCombines ==
  /\ rPc = "input"
  /\ rLineResults' = CombineEachLine(rLines)
  /\ rPc' = "lines"
  /\ UNCHANGED <<rLines, rTwoLevel, splitVars, combineVars, bgmVars, runVars, parseVars,
                 dockerVars>>

DoFinalCombine ==
  /\ rPc = "lines"
  /\ rTwoLevel' = CombineLineResults(rLineResults)
  /\ rPc' = "done"
  /\ UNCHANGED <<rLines, rLineResults, splitVars, combineVars, bgmVars, runVars, parseVars,
                 dockerVars>>

NextReassemble == DoLineCombines \/ DoFinalCombine
SpecReassemble == InitReassemble /\ [][NextReassemble]_vars

(***************************************************************************)
(* The mix command on its own: every pair of durations up to MaxDuration.  *)
(***************************************************************************)
InitBgm ==
  /\ voiceDuration \in 1..MaxDuration
  /\ bgmDuration \in 1..MaxDuration
  /\ command = <<>> /\ bPc = "probed"
  /\ IdleSplit /\ IdleCombine /\ IdleRun /\ IdleParse /\ IdleReassemble /\ IdleDocker

DoMixCommand ==
  /\ bPc = "probed"
  /\ command' = MixCommand(voiceDuration, bgmDuration)
  /\ bPc' = "built"
  /\ UNCHANGED <<voiceDuration, bgmDuration, splitVars, combineVars, runVars, parseVars, reassembleVars, dockerVars>>

NextBgm == DoMixCommand
SpecBgm == InitBgm /\ [][NextBgm]_vars

(***************************************************************************)
(* scriptParser.ts: isDialogueScript, parseDialogueScript, parseParameters.*)
(* A number is held in thousandths (1.2 is 1200, -0.1 is -100).            *)
(***************************************************************************)
LineFeed == "\n"
Digits   == {"0", "1", "2", "3", "5"}
Letters  == {"a", "b", "c", "d", "e", "h", "i", "l", "m", "n", "o", "p", "s",
             "t", "u", "v", "x", "S"}
\* \w of the regular expressions
WordChars == Letters \cup Digits \cup {"_"}

DigitValue(ch) ==
  CASE ch = "0" -> 0 [] ch = "1" -> 1 [] ch = "2" -> 2 [] ch = "3" -> 3 [] ch = "5" -> 5

\* how many characters of s, from position from on, are in class (a greedy
\* \d+, \w+ or \s*)
RECURSIVE Span(_, _, _)
Span(s, from, class) ==
  IF from <= Len(s) /\ s[from] \in class THEN 1 + Span(s, from + 1, class) ELSE 0

\* String.prototype.split on a one-character separator
RECURSIVE Split(_, _)
Split(s, sep) ==
  LET hits == {k \in 1..Len(s) : s[k] = sep}
  IN  IF hits = {} THEN <<s>>
      ELSE LET first == CHOOSE k \in hits : \A j \in hits : k <= j
           IN  <<SubSeq(s, 1, first - 1)>> \o Split(SubSeq(s, first + 1, Len(s)), sep)

\* .map(line => line.trim())
TrimAll(lines) == [i \in 1..Len(lines) |-> Trim(lines[i])]

\* parseInt(digits, 10) on a string of digits
RECURSIVE ParseInt(_)
ParseInt(digits) ==
  IF digits = <<>> THEN 0
  ELSE ParseInt(SubSeq(digits, 1, Len(digits) - 1)) * 10 + DigitValue(digits[Len(digits)])

\* lines 28 and 46: /^@(\d+)(?:\(([^)]+)\))?:\s*(.+)$/ on one line.  After
\* '@' and the digits a '(' must open a non-empty group closed by the first
\* ')'; then ':'; then \s* gives way so that (.+) has a character.
NoMatch == [matched |-> FALSE, id |-> <<>>, params |-> <<>>, text |-> <<>>]
MatchLine(line) ==
  LET n == Len(line)
      d == Span(line, 2, Digits)
      open == 2 + d
      hasParams == open <= n /\ line[open] = "("
      closes == {k \in (open + 1)..n : line[k] = ")"}
      close == IF closes = {} THEN 0 ELSE CHOOSE k \in closes : \A j \in closes : k <= j
      colon == IF hasParams THEN close + 1 ELSE open
      rest == SubSeq(line, colon + 1, n)
      ws == Span(rest, 1, Whitespace)
      text == IF ws < Len(rest) THEN SubSeq(rest, ws + 1, Len(rest))
              ELSE SubSeq(rest, Len(rest), Len(rest))
  IN  IF /\ n >= 1 /\ line[1] = "@"
         /\ d >= 1
         /\ hasParams => close > open + 1
         /\ colon <= n /\ line[colon] = ":"
         /\ rest # <<>>
         /\ \A k \in 1..Len(text) : text[k] # LineFeed
      THEN [matched |-> TRUE,
            id |-> SubSeq(line, 2, open - 1),
            params |-> IF hasParams THEN SubSeq(line, open + 1, close - 1) ELSE <<>>,
            text |-> text]
      ELSE NoMatch

\* lines 23-30
IsDialogueScriptFirstLine(content) ==
  LET lines == SelectSeq(TrimAll(Split(content, LineFeed)), LAMBDA line : Len(line) > 0)
  IN  lines # <<>> /\ MatchLine(lines[1]).matched
IsDialogueScript(content) ==
  LET lines == SelectSeq(TrimAll(Split(content, LineFeed)), LAMBDA line : Len(line) > 0)
  IN  lines # <<>> /\ \E i \in 1..Len(lines) : MatchLine(lines[i]).matched

\* line 97: /^(\w+)\s*=\s*(-?\d+\.?\d*)$/ on one pair
MatchPair(pair) ==
  LET n == Len(pair)
      w == Span(pair, 1, WordChars)
      eq == w + 1 + Span(pair, w + 1, Whitespace)
      v == eq + 1 + Span(pair, eq + 1, Whitespace)
      neg == v <= n /\ pair[v] = "-"
      i0 == IF neg THEN v + 1 ELSE v
      ni == Span(pair, i0, Digits)
      dot == i0 + ni <= n /\ pair[i0 + ni] = "."
      f0 == IF dot THEN i0 + ni + 1 ELSE i0 + ni
      nf == IF dot THEN Span(pair, f0, Digits) ELSE 0
  IN  IF /\ w >= 1
         /\ eq <= n /\ pair[eq] = "="
         /\ ni >= 1
         /\ f0 + nf = n + 1
      THEN [matched |-> TRUE, key |-> SubSeq(pair, 1, w), value |-> SubSeq(pair, v, n)]
      ELSE [matched |-> FALSE, key |-> <<>>, value |-> <<>>]

\* line 104: parseFloat on a string that line 97 has matched, in thousandths
ParseFloat(value) ==
  LET neg == value[1] = "-"
      body == IF neg THEN Tail(value) ELSE value
      ni == Span(body, 1, Digits)
      frac == SubSeq(body, ni + 2, Len(body))
      thousandths == ParseInt(SubSeq(frac \o <<"0", "0", "0">>, 1, 3))
  IN  (IF neg THEN -1 ELSE 1) * (ParseInt(SubSeq(body, 1, ni)) * 1000 + thousandths)

\* an optional number of a DialogueLine (lines 15-17)
Unset == [set |-> FALSE, value |-> 0]
Value(v) == [set |-> TRUE, value |-> v]
NoParams == [pitch |-> Unset, intonationScale |-> Unset, speed |-> Unset]

PITCH == <<"p", "i", "t", "c", "h">>
INTONATION_SCALE == <<"i", "n", "t", "o", "n", "a", "t", "i", "o", "n", "S", "c", "a", "l", "e">>
SPEED == <<"s", "p", "e", "e", "d">>

\* lines 111-123: the switch on the key
SetParam(params, key, value) ==
  IF key = PITCH THEN [params EXCEPT !.pitch = Value(value)]
  ELSE IF key = INTONATION_SCALE THEN [params EXCEPT !.intonationScale = Value(value)]
  ELSE IF key = SPEED THEN [params EXCEPT !.speed = Value(value)]
  ELSE params

\* lines 96-124: the loop over the pairs (continue on a pair that does not
\* match)
RECURSIVE ParseLoopAbort(_, _)
ParseLoopAbort(paramPairs, params) ==
  IF paramPairs = <<>> THEN params
  ELSE LET match == MatchPair(Head(paramPairs))
       IN  IF ~match.matched THEN params
           ELSE ParseLoopAbort(Tail(paramPairs),
                               SetParam(params, match.key, ParseFloat(match.value)))
RECURSIVE ParseLoop(_, _)
ParseLoop(paramPairs, params) ==
  IF paramPairs = <<>> THEN params
  ELSE LET match == MatchPair(Head(paramPairs))
       IN  ParseLoop(Tail(paramPairs),
                     IF ~match.matched THEN params
                     ELSE SetParam(params, match.key, ParseFloat(match.value)))

\* lines 90-127
ParseParametersAbort(paramsString) ==
  ParseLoopAbort(TrimAll(Split(paramsString, ",")), NoParams)
ParseParameters(paramsString) ==
  ParseLoop(TrimAll(Split(paramsString, ",")), NoParams)

\* lines 68-79: the DialogueLine of a matched line
DialogueLineWith(characterId, text, params) ==
  [characterId |-> characterId, text |-> text, pitch |-> params.pitch,
   intonationScale |-> params.intonationScale, speed |-> params.speed]

\* lines 39-82: the loop over the lines
RECURSIVE ParseLinesBreak(_, _)
ParseLinesBreak(lines, dialogueLines) ==
  IF lines = <<>> THEN dialogueLines
  ELSE LET line == Trim(Head(lines))
           match == MatchLine(line)
           text == Trim(match.text)
       IN  IF line # <<>> /\ ~match.matched THEN dialogueLines
           ELSE ParseLinesBreak(Tail(lines),
                  IF line # <<>> /\ match.matched /\ text # <<>>
                  THEN Append(dialogueLines,
                              DialogueLineWith(ParseInt(match.id), text,
                                               IF match.params # <<>>
                                               THEN ParseParameters(match.params)
                                               ELSE NoParams))
                  ELSE dialogueLines)
RECURSIVE ParseLines(_, _)
ParseLines(lines, dialogueLines) ==
  IF lines = <<>> THEN dialogueLines
  ELSE LET line == Trim(Head(lines))
           match == MatchLine(line)
           text == Trim(match.text)
       IN  ParseLines(Tail(lines),
             IF line # <<>> /\ match.matched /\ text # <<>>
             THEN Append(dialogueLines,
                         DialogueLineWith(ParseInt(match.id), text,
                                          IF match.params # <<>>
                                          THEN ParseParameters(match.params)
                                          ELSE NoParams))
             ELSE dialogueLines)

\* lines 35-85
ParseDialogueScript(content) == ParseLines(Split(content, LineFeed), <<>>)

(***************************************************************************)
(* The parser on its own: every content over RawAlphabet up to MaxRawLen,  *)
(* dialogue lines written out from an id, up to MaxPairs parameter pairs   *)
(* and a text, and some contents of several lines.                         *)
(***************************************************************************)
RawAlphabet == {"@", "1", "(", ")", ":", " ", "a", LineFeed}
RawContents == UNION {[1..n -> RawAlphabet] : n \in 0..MaxRawLen}

\* a pair as written in a script, and what it says: kind "ok" gives key the
\* value (in thousandths)
Pair(text, kind, key, value) == [text |-> text, kind |-> kind, key |-> key, value |-> value]
PairSpecs ==
  { Pair(PITCH \o <<"=", "-", "0", ".", "1">>, "ok", "pitch", -100),
    Pair(SPEED \o <<"=", "1", ".", "2">>, "ok", "speed", 1200),
    Pair(INTONATION_SCALE \o <<"=", "1", ".">>, "ok", "intonationScale", 1000),
    Pair(PITCH \o <<" ", "=", " ", "0">>, "ok", "pitch", 0),
    Pair(SPEED \o <<"=", "2">>, "ok", "speed", 2000),
    Pair(<<"v", "o", "l", "u", "m", "e", "=", "1">>, "unknown", "", 0),
    Pair(SPEED \o <<"=", ".", "5">>, "malformed", "", 0),
    Pair(PITCH \o <<"=", "1", "e", "3">>, "malformed", "", 0),
    Pair(PITCH \o <<":", "1">>, "malformed", "", 0),
    Pair(PITCH, "malformed", "", 0),
    Pair(<<"=", "1">>, "malformed", "", 0),
    Pair(PITCH \o <<"=", "(", "1", ")">>, "malformed", "", 0),
    Pair(<<>>, "malformed", "", 0) }

IdSpecs == {[text |-> <<"1">>, value |-> 1], [text |-> <<"2">>, value |-> 2],
            [text |-> <<"1", "2">>, value |-> 12]}
TextSpecs == {<<"t", "e", "x", "t">>, <<"a", " ", "b">>}

\* the pairs joined by ", "
RECURSIVE JoinPairs(_)
JoinPairs(pairs) ==
  IF pairs = <<>> THEN <<>>
  ELSE IF Len(pairs) = 1 THEN pairs[1].text
  ELSE pairs[1].text \o <<",", " ">> \o JoinPairs(Tail(pairs))

\* the line '@<id>(<params>): <text>' ('@<id>: <text>' without pairs)
Render(id, pairs, text) ==
  <<"@">> \o id.text
    \o (IF pairs = <<>> THEN <<>> ELSE <<"(">> \o JoinPairs(pairs) \o <<")">>)
    \o <<":", " ">> \o text

HelloLine == <<"@", "1", ":", " ", "h", "e", "l", "l", "o">>
ListedContents ==
  { HelloLine,
    <<"a", LineFeed>> \o HelloLine \o <<LineFeed, "b">>,
    <<" ", " ">> \o HelloLine \o <<" ", LineFeed>>,
    <<"h", "e", "l", "l", "o", LineFeed, "a", ":", " ", "b">>,
    <<"@", "1", "(", ")", ":", " ", "a">>,
    <<"@", "1", "(", "a", ":", " ", "a">>,
    <<"@", "1", "(", "a", ")", " ", ":", "a">>,
    <<"@", "1", "(", "a", ")", ")", ":", "a">>,
    <<"@", "(", "a", ")", ":", "a">>,
    <<"@", "1", "(", "a", ")", ":">>,
    <<"@", "1", "(", "a", ")", ":", " ", " ">>,
    <<"@", "1", "(", "a", ")", LineFeed, ":", "a">>,
    <<"@", "1", "(", "(", ")", ":", "a", ")">>,
    <<"a", "@", "1", ":", "a">>,
    <<"@", "1", ":", " ", "a", "b", "a", LineFeed, LineFeed, "x", LineFeed,
      "@", "2", ":", "b", LineFeed, "@", "3", "(", ")", ":", "c", LineFeed,
      " ", "@", "1", "0", "(", "a", ")", ":", " ", "c", "a", " ">>,
    <<"@", "2", ":", "a", LineFeed, "@", "2", ":", "a", LineFeed, ":", LineFeed,
      "@", "2", ":", "a">> }

NoOrigin == [kind |-> "raw", id |-> [text |-> <<>>, value |-> 0], pairs |-> <<>>, text |-> <<>>]

\* the --pitch, --intonation-scale and --speed options (the first is the
\* default of the cli, lines 732-746)
CliDefaults == [pitch |-> 0, intonationScale |-> 1000, speed |-> 1000]
DefaultOptions == {CliDefaults, [pitch |-> 50, intonationScale |-> 1500, speed |-> 800]}

InitParse ==
  /\ IdleSplit /\ IdleCombine /\ IdleBgm /\ IdleRun /\ IdleReassemble /\ IdleDocker
  /\ \/ /\ pOrigin = NoOrigin
        /\ pContent \in RawContents \cup ListedContents
     \/ \E id \in IdSpecs, text \in TextSpecs :
        \E pairs \in UNION {[1..n -> PairSpecs] : n \in 0..MaxPairs} :
          /\ pOrigin = [kind |-> "dlg", id |-> id, pairs |-> pairs, text |-> text]
          /\ pContent = Render(id, pairs, text)
  /\ pIsDialogue = FALSE /\ pParsed = <<>> /\ pPc = "input"
  /\ pDefaults = CliDefaults /\ pUnits = <<>>

\* voiceService.ts 423: isDialogueScript(text)
DoIsDialogueScript ==
  /\ pPc = "input"
  /\ pIsDialogue' = IsDialogueScript(pContent)
  /\ pPc' = "detected"
  /\ UNCHANGED <<pOrigin, pContent, pParsed, pDefaults, pUnits, splitVars, combineVars,
                 bgmVars, runVars, reassembleVars, dockerVars>>

\* voiceService.ts 430: parseDialogueScript(text)
DoParseDialogueScript ==
  /\ pPc = "detected"
  /\ pParsed' = ParseDialogueScript(pContent)
  /\ pPc' = "parsed"
  /\ UNCHANGED <<pOrigin, pContent, pIsDialogue, pDefaults, pUnits, splitVars, combineVars,
                 bgmVars, runVars, reassembleVars, dockerVars>>

\* voiceService.ts 465-467: line.pitch ?? defaultPitch (only an unset value
\* gives way to the default)
NullishOrFalsy(param, default) ==
  IF param.set /\ param.value # 0 THEN param.value ELSE default
NullishOr(param, default) == IF param.set THEN param.value ELSE default

\* lines 473-479: the generateVoice calls of one line, one per chunk
UnitsOfLineSameIndex(line, lineIndex, defaults) ==
  LET textChunks == SplitText(line.text, RunMaxLength)
  IN  [c \in 1..Len(textChunks) |->
         [lineIndex |-> lineIndex, chunkIndex |-> 0,
          text |-> textChunks[c],
          characterId |-> line.characterId,
          pitch |-> NullishOr(line.pitch, defaults.pitch),
          intonationScale |-> NullishOr(line.intonationScale, defaults.intonationScale),
          speed |-> NullishOr(line.speed, defaults.speed)]]
UnitsOfLine(line, lineIndex, defaults) ==
  LET textChunks == SplitText(line.text, RunMaxLength)
  IN  [c \in 1..Len(textChunks) |->
         [lineIndex |-> lineIndex, chunkIndex |-> c - 1,
          text |-> textChunks[c],
          characterId |-> line.characterId,
          pitch |-> NullishOr(line.pitch, defaults.pitch),
          intonationScale |-> NullishOr(line.intonationScale, defaults.intonationScale),
          speed |-> NullishOr(line.speed, defaults.speed)]]

\* lines 462-485: dialogueLines.map((line, index) => ...), lineIndex = index + 1
RECURSIVE DispatchLinesFrom(_, _, _)
DispatchLinesFrom(dialogueLines, index, defaults) ==
  IF index >= Len(dialogueLines) THEN <<>>
  ELSE UnitsOfLine(dialogueLines[index + 1], index + 1, defaults)
         \o DispatchLinesFrom(dialogueLines, index + 1, defaults)

DispatchLines(dialogueLines, defaults) == DispatchLinesFrom(dialogueLines, 0, defaults)

\* voiceService.ts 427-485: the dialogue branch with a non-empty list of
\* lines issues its generateVoice calls
DoDispatch(defaults) ==
  /\ pPc = "parsed" /\ pIsDialogue /\ pParsed # <<>>
  /\ pDefaults' = defaults
  /\ pUnits' = DispatchLines(pParsed, defaults)
  /\ pPc' = "dispatched"
  /\ UNCHANGED <<pOrigin, pContent, pIsDialogue, pParsed, splitVars, combineVars,
                 bgmVars, runVars, reassembleVars, dockerVars>>

NextParse ==
  \/ DoIsDialogueScript
  \/ DoParseDialogueScript
  \/ \E defaults \in DefaultOptions : DoDispatch(defaults)
SpecParse == InitParse /\ [][NextParse]_vars

(***************************************************************************)
(* The engine container (src/unnamed/part_002) and the commands of the cli *)
(* that look at it (voiceService.ts 759-783, 829-831, 950-954, 984-1010),  *)
(* run one after the other.  The container is "not-present", "stopped"     *)
(* (created or stopped) or "running".                                      *)
(***************************************************************************)
ContainerStates == {"not-present", "stopped", "running"}
EngineCommands  == {"generate", "batch-generate", "list-characters"}
DockerActions   == {"pull", "create", "start", "stop", "delete", "status"}

\* part_002 31-51: docker ps -a / docker ps filtered by the container name
DoesContainerExist(c) == c # "not-present"
IsContainerRunning(c) == c = "running"

\* what the docker command line does to the container: create needs the
\* name to be free, start, stop and rm need the container
Docker(op, c) ==
  CASE op = "create" -> IF c = "not-present" THEN [ok |-> TRUE, container |-> "stopped"]
                        ELSE [ok |-> FALSE, container |-> c]
    [] op = "start"  -> IF c = "not-present" THEN [ok |-> FALSE, container |-> c]
                        ELSE [ok |-> TRUE, container |-> "running"]
    [] op = "stop"   -> IF c = "not-present" THEN [ok |-> FALSE, container |-> c]
                        ELSE [ok |-> TRUE, container |-> "stopped"]
    [] op = "rm -f"  -> IF c = "not-present" THEN [ok |-> FALSE, container |-> c]
                        ELSE [ok |-> TRUE, container |-> "not-present"]

\* an execAsync call: res says whether docker could be run at all
Exec(op, c, res) == IF res = "ok" THEN Docker(op, c) ELSE [ok |-> FALSE, container |-> c]

Ended(c, code) == [container |-> c, exit |-> code]

\* part_002 112-122
CreateContainer(c, res) ==
  IF DoesContainerExist(c) THEN Ended(c, "1")
  ELSE IF res = "pullFails" THEN Ended(c, "1")
  ELSE LET r == Exec("create", c, res) IN Ended(r.container, IF r.ok THEN "0" ELSE "1")

\* part_002 124-136
StartContainer(c, res) ==
  IF ~DoesContainerExist(c) THEN Ended(c, "1")
  ELSE IF IsContainerRunning(c) THEN Ended(c, "0")
  ELSE LET r == Exec("start", c, res) IN Ended(r.container, IF r.ok THEN "0" ELSE "1")

\* part_002 138-147
StopContainerRemoves(c, res) ==
  IF ~IsContainerRunning(c) THEN Ended(c, "0")
  ELSE LET r == Exec("rm -f", c, res) IN Ended(r.container, IF r.ok THEN "0" ELSE "1")
StopContainer(c, res) ==
  IF ~IsContainerRunning(c) THEN Ended(c, "0")
  ELSE LET r == Exec("stop", c, res) IN Ended(r.container, IF r.ok THEN "0" ELSE "1")

\* part_002 149-163
DeleteContainer(c, res) ==
  IF ~DoesContainerExist(c) THEN Ended(c, "0")
  ELSE LET r == Exec("rm -f", c, res) IN Ended(r.container, IF r.ok THEN "0" ELSE "1")

\* part_002 61-90: where prepareAndStartEngine goes after its checks
PrepareNextAssumesRunning(installed, c) ==
  IF ~installed THEN "throw"
  ELSE IF ~DoesContainerExist(c) THEN "prepare.pull"
  ELSE "return"
PrepareNext(installed, c) ==
  IF ~installed THEN "throw"
  ELSE IF ~DoesContainerExist(c) THEN "prepare.pull"
  ELSE IF ~IsContainerRunning(c) THEN "prepare.start"
  ELSE "return"

InitDocker ==
  /\ IdleSplit /\ IdleCombine /\ IdleBgm /\ IdleRun /\ IdleParse /\ IdleReassemble
  /\ container \in ContainerStates
  /\ dockerInstalled \in BOOLEAN
  /\ dCmd = "none" /\ dPc = "idle" /\ dFrom = container /\ dExit = "none"
  /\ dPrepared = FALSE /\ dRequested = FALSE /\ dCount = 0

dockerRest == <<splitVars, combineVars, bgmVars, runVars, parseVars, reassembleVars>>

\* process.exit(code), or the handler returns ("0"); "info" is exit code 0
\* after the InfoMessage has been printed
Exit(code) == dPc' = "idle" /\ dExit' = code

\* the user runs a command of the cli
RunCommand(c) ==
  /\ dPc = "idle" /\ dCount < MaxCommands
  /\ dCmd' = c
  /\ dPc' = IF c \in EngineCommands THEN "prepare" ELSE c
  /\ dFrom' = container
  /\ dExit' = "none" /\ dPrepared' = FALSE /\ dRequested' = FALSE
  /\ dCount' = dCount + 1
  /\ UNCHANGED <<container, dockerInstalled, dockerRest>>

\* part_002 61-65 and 83: the checks of prepareAndStartEngine
PrepareChecks ==
  /\ dPc = "prepare"
  /\ LET next == PrepareNext(dockerInstalled, container)
     IN  CASE next = "throw"  -> Exit("1") /\ UNCHANGED dPrepared
           [] next = "return" -> dPc' = "engine" /\ dPrepared' = TRUE /\ UNCHANGED dExit
           [] OTHER           -> dPc' = next /\ UNCHANGED <<dPrepared, dExit>>
  /\ UNCHANGED <<container, dockerInstalled, dCmd, dFrom, dRequested, dCount, dockerRest>>

\* part_002 66-80: pull, create, and the InfoMessage that the handlers turn
\* into exit code 0 (voiceService.ts 775-777)
PrepareCreate(res) ==
  /\ dPc = "prepare.pull"
  /\ LET r == Exec("create", container, res)
     IN  /\ container' = IF res = "pullFails" THEN container ELSE r.container
         /\ Exit(IF res # "pullFails" /\ r.ok THEN "info" ELSE "1")
  /\ UNCHANGED <<dockerInstalled, dCmd, dFrom, dPrepared, dRequested, dCount, dockerRest>>

\* part_002 84-89: startContainer(), then the ten seconds of waiting
PrepareStart(res) ==
  /\ dPc = "prepare.start"
  /\ LET r == StartContainer(container, res)
     IN  /\ container' = r.container
         /\ IF r.exit = "0"
            THEN dPc' = "engine" /\ dPrepared' = TRUE /\ UNCHANGED dExit
            ELSE Exit("1") /\ UNCHANGED dPrepared
  /\ UNCHANGED <<dockerInstalled, dCmd, dFrom, dRequested, dCount, dockerRest>>

\* voiceService.ts 763-772, 833-933, 953-954: what follows
\* prepareAndStartEngine; requested says whether a request went to the engine
EngineWork(requested, code) ==
  /\ dPc = "engine"
  /\ dCmd = "list-characters" => requested
  /\ dRequested' = requested
  /\ Exit(code)
  /\ UNCHANGED <<container, dockerInstalled, dCmd, dFrom, dPrepared, dCount, dockerRest>>

\* voiceService.ts 984-1010: docker <action>
DockerSubcommand(res) ==
  /\ dPc \in DockerActions /\ dCmd = dPc
  /\ LET r == CASE ~dockerInstalled -> Ended(container, IF dPc = "status" THEN "0" ELSE "1")
                [] dockerInstalled /\ dPc = "create" -> CreateContainer(container, res)
                [] dockerInstalled /\ dPc = "start"  -> StartContainer(container, res)
                [] dockerInstalled /\ dPc = "stop"   -> StopContainer(container, res)
                [] dockerInstalled /\ dPc = "delete" -> DeleteContainer(container, res)
                [] dockerInstalled /\ dPc = "pull"   ->
                     Ended(container, IF res = "pullFails" THEN "1" ELSE "0")
                [] dockerInstalled /\ dPc = "status" -> Ended(container, "0")
     IN  /\ container' = r.container
         /\ Exit(r.exit)
  \* part_002 183-192: status asks a running engine for its version
  /\ dRequested' = (dockerInstalled /\ dPc = "status" /\ IsContainerRunning(container))
  /\ UNCHANGED <<dockerInstalled, dCmd, dFrom, dPrepared, dCount, dockerRest>>

ExecResults == {"ok", "pullFails", "execFails"}

NextDocker ==
  \/ \E c \in EngineCommands \cup DockerActions : RunCommand(c)
  \/ PrepareChecks
  \/ \E res \in ExecResults : PrepareCreate(res)
  \/ \E res \in ExecResults : PrepareStart(res)
  \/ \E requested \in BOOLEAN, code \in {"0", "1"} : EngineWork(requested, code)
  \/ \E res \in ExecResults : DockerSubcommand(res)

SpecDocker == InitDocker /\ [][NextDocker]_vars

(***************************************************************************)
(* generateAudio and the generate / batch-generate handlers                *)
(* (voiceService.ts 370-704, 759-783, 904-944).                            *)
(*                                                                         *)
(* A document is what isDialogueScript / parseDialogueScript make of the   *)
(* file: a monologue text, or the DialogueLines of a script.               *)
(***************************************************************************)
MonoDoc(text)      == [dialogue |-> FALSE, text |-> text, lines |-> <<>>]
DialogueDoc(lines) == [dialogue |-> TRUE, text |-> <<>>, lines |-> lines]
DialogueLine(characterId, text) == [characterId |-> characterId, text |-> text]

\* a text one character over the ceiling of line 393
LongText == [i \in 1..(MAX_TEXT_LENGTH + 1) |-> "a"]

Docs ==
  { MonoDoc(<<>>),
    MonoDoc(<<"a">>),
    MonoDoc(LongText),
    MonoDoc(<<"a", Period, "b", "a">>),
    DialogueDoc(<<DialogueLine(1, <<"a", "b", "a", "b">>), DialogueLine(2, <<"b">>)>>) }

\* the documents of a batch: one that generateAudio rejects, one of two units
BatchDocs == {MonoDoc(<<>>), MonoDoc(<<"a", Period, "b", "a">>)}

\* lines 470 and 515: splitText(line.text) / splitText(text), one list of
\* chunks per dialogue line (a monologue is one list)
LineChunks(doc) ==
  IF doc.dialogue
  THEN [l \in 1..Len(doc.lines) |-> SplitText(doc.lines[l].text, RunMaxLength)]
  ELSE <<SplitText(doc.text, RunMaxLength)>>

\* a file of the texts directory: its name, and what generateAudio reads
\* from it
ScriptFile(baseName, ext, doc) == [baseName |-> baseName, ext |-> ext, doc |-> doc]

Doc(d)    == filesToProcess[d].doc
Chunks(d) == LineChunks(Doc(d))
LinesOf(d) == 1..Len(Chunks(d))
ChunksOf(d, l) == 1..Len(Chunks(d)[l])
KeysOf(d) == UNION {{<<d, l, c>> : c \in ChunksOf(d, l)} : l \in LinesOf(d)}

\* text.length of the file: a script line "@1: text" has four characters
\* before its text, and the lines are separated by line feeds
RECURSIVE SumLen(_)
SumLen(lines) ==
  IF lines = <<>> THEN 0 ELSE Len(Head(lines).text) + 4 + SumLen(Tail(lines))
TextLength(doc) ==
  IF doc.dialogue THEN SumLen(doc.lines) + Len(doc.lines) - 1 ELSE Len(doc.text)

\* lines 388-420: what generateAudio rejects right after reading the file
InputErrorNoCeiling(doc, opts) ==
  IF TextLength(doc) = 0 THEN "Input text file is empty."
  ELSE IF ~opts.outputDirExists THEN "Output directory does not exist"
  ELSE IF opts.bgm = "missing" THEN "BGM file not found"
  ELSE ""
InputError(doc, opts) ==
  IF TextLength(doc) = 0 THEN "Input text file is empty."
  ELSE IF TextLength(doc) > MAX_TEXT_LENGTH THEN "Text file is too long"
  ELSE IF ~opts.outputDirExists THEN "Output directory does not exist"
  ELSE IF opts.bgm = "missing" THEN "BGM file not found"
  ELSE ""

\* lines 388-420, 432-434 and 511-513: what generateAudio rejects before
\* any engine call
ValidationError(doc, opts) ==
  IF InputError(doc, opts) # "" THEN InputError(doc, opts)
  ELSE IF doc.dialogue /\ doc.lines = <<>> THEN "No valid dialogue lines found in the script."
  ELSE IF ~doc.dialogue /\ ~opts.characterIdGiven THEN "Character ID is required"
  ELSE ""

\* the audio the engine renders for one unit: the payload is labelled with
\* the unit, the header is whatever the engine sends
EngineFormats == {Format(1, 24000, 16)}
EngineBuffers(k) ==
  {WavBuffer(f, << <<k[2], k[3]>> >>) : f \in EngineFormats}
    \cup {CorruptBuffer(<< <<k[2], k[3]>> >>)}

\* the state of the promise of one generateVoice call
PromiseState(st) ==
  IF st = "ok" THEN "fulfilled" ELSE IF st = "failed" THEN "rejected" ELSE "pending"

\* Promise.all (lines 487, 502, 548): rejected as soon as one member is,
\* fulfilled when all are
PromiseAllSettled(states) ==
  IF \A k \in DOMAIN states : states[k] # "pending" THEN "fulfilled" ELSE "pending"
PromiseAllEarly(states) ==
  IF \E k \in DOMAIN states : states[k] = "rejected" THEN "rejected"
  ELSE IF \E k \in DOMAIN states : states[k] = "fulfilled" THEN "fulfilled"
  ELSE "pending"
PromiseAll(states) ==
  IF \E k \in DOMAIN states : states[k] = "rejected" THEN "rejected"
  ELSE IF \A k \in DOMAIN states : states[k] = "fulfilled" THEN "fulfilled"
  ELSE "pending"

\* line 490
CompareChunkIndexReversed(a, b) == b.chunkIndex - a.chunkIndex
CompareChunkIndex(a, b) == a.chunkIndex - b.chunkIndex
\* line 505
CompareLineIndexReversed(a, b) == b.lineIndex - a.lineIndex
CompareLineIndex(a, b) == a.lineIndex - b.lineIndex
\* line 551
CompareIndexReversed(a, b) == b.index - a.index
CompareIndex(a, b) == a.index - b.index

\* the comparator passed to sort at each of the three call sites
Compare(site, a, b) ==
  CASE site = "chunkIndex" -> CompareChunkIndex(a, b)
    [] site = "lineIndex"  -> CompareLineIndex(a, b)
    [] site = "index"      -> CompareIndex(a, b)

\* Array.prototype.sort with a comparator (stable)
SortedBy(results, site) ==
  LET n == Len(results)
      rank(i) == 1 + Cardinality({j \in 1..n :
                       \/ Compare(site, results[j], results[i]) < 0
                       \/ (Compare(site, results[j], results[i]) = 0 /\ j < i)})
  IN  [p \in 1..n |-> results[CHOOSE i \in 1..n : rank(i) = p]]

AudioBufferOf(results) == [p \in 1..Len(results) |-> results[p].audioBuffer]

\* lines 473-485: the chunk promises of one line, as Promise.all sees them
ChunkStates(cs, d, l) == [c \in ChunksOf(d, l) |-> PromiseState(cs[<<d, l, c>>].st)]

\* lines 487-498: the promise of one dialogue line
LinePromise(cs, lr, d, l) ==
  IF PromiseAll(ChunkStates(cs, d, l)) = "rejected" THEN "rejected"
  ELSE IF lr[<<d, l>>].st = "ok" THEN "fulfilled"
  ELSE IF lr[<<d, l>>].st = "failed" THEN "rejected"
  ELSE "pending"

\* lines 502 and 548: await Promise.all(audioPromises)
Awaited(cs, lr, d) ==
  IF Doc(d).dialogue
  THEN PromiseAll([l \in LinesOf(d) |-> LinePromise(cs, lr, d, l)])
  ELSE PromiseAll(ChunkStates(cs, d, 1))

\* lines 489-491: the chunk buffers of one line, sorted by chunkIndex
SortedChunks(cs, d, l) ==
  AudioBufferOf(SortedBy(
    [c \in ChunksOf(d, l) |-> [chunkIndex |-> c - 1, audioBuffer |-> cs[<<d, l, c>>].buffer]],
    "chunkIndex"))

\* lines 504-506 and 550-552: the list handed to the final combine
SortedResults(cs, lr, d) ==
  IF Doc(d).dialogue
  THEN AudioBufferOf(SortedBy(
         [l \in LinesOf(d) |-> [lineIndex |-> l, audioBuffer |-> lr[<<d, l>>].buffer]],
         "lineIndex"))
  ELSE AudioBufferOf(SortedBy(
         [c \in ChunksOf(d, 1) |-> [index |-> c - 1, audioBuffer |-> cs[<<d, 1, c>>].buffer]],
         "index"))

\* lines 774-781 and 927-930: a failed run ends the generate command with
\* exit code 1; the batch loop logs it and goes on
OnRunErrorRethrow(cmd_) == "exit1"
OnRunError(cmd_) == IF cmd_ = "batch" THEN "continue" ELSE "exit1"

controlVars == <<fileIdx, batchPc, runPc, outcome>>

\* generateAudio returns or throws, and its caller goes on
RunEnds(result) ==
  /\ outcome' = [outcome EXCEPT ![fileIdx] = result]
  /\ runPc' = "idle"
  /\ IF result = "failed" /\ OnRunError(cmd) = "exit1"
     THEN batchPc' = "exit1" /\ fileIdx' = fileIdx
     ELSE IF cmd = "batch" /\ fileIdx < Len(filesToProcess)
     THEN batchPc' = "running" /\ fileIdx' = fileIdx + 1
     ELSE batchPc' = "done" /\ fileIdx' = fileIdx

\* the run of document d is the one its caller is awaiting
Current(d) == d = fileIdx /\ runPc = "awaiting"

\* the buffers held by the result slots of document d are released (the run
\* has thrown, or lines 504-506 / 550-555 have moved them to audioBuffers)
ReleaseCalls(cs, d) ==
  [k \in DOMAIN cs |-> IF k[1] = d THEN [cs[k] EXCEPT !.buffer = ShortBuffer] ELSE cs[k]]
ReleaseLines(lr, d) ==
  [k \in DOMAIN lr |-> IF k[1] = d THEN [lr[k] EXCEPT !.buffer = ShortBuffer] ELSE lr[k]]

\* after an event of document d that makes the calls cs and the line results
\* lr: the awaited Promise.all rejects at once when one member has
Settle(cs, lr, d) ==
  IF Current(d) /\ Awaited(cs, lr, d) = "rejected"
  THEN /\ calls' = ReleaseCalls(cs, d)
       /\ lineResults' = ReleaseLines(lr, d)
       /\ RunEnds("failed")
  ELSE /\ calls' = cs
       /\ lineResults' = lr
       /\ UNCHANGED controlVars

(***************************************************************************)
(* The files.  A file is absent, old (there before the command), partial   *)
(* (what a failed writer left) or complete; "by" is the document whose run *)
(* wrote it (0: none).  The temporary files carry a timestamp, so each run *)
(* has its own; the output path of a document is made of its base name.    *)
(***************************************************************************)
File(state, by) == [state |-> state, by |-> by]
Absent == File("absent", 0)
Old    == File("old", 0)

\* the names a texts directory is listed from, in the order of readdir
FileNames == << <<1, "script">>, <<1, "txt">>, <<2, "md">>, <<2, "txt">> >>
BaseNames == {FileNames[i][1] : i \in DOMAIN FileNames}

Path(kind, d) == <<kind, d>>
\* lines 908-909 (generate: argv.output): audio/<dir>/<baseName>.mp3
OutputPath(d) == <<"out", filesToProcess[d].baseName>>
Paths == ({"out"} \X BaseNames) \cup ({"temp", "tempbgm"} \X (1..MaxFiles))

\* fsPromises.unlink and fsPromises.rename
UnlinkNoop(fs, p) == fs
Unlink(fs, p) == [fs EXCEPT ![p] = Absent]
Rename(fs, from, to) == [fs EXCEPT ![to] = fs[from], ![from] = Absent]

\* lines 862-865: the files batch-generate looks at
IsScriptFile(ext) == ext \in {"script", "txt"}

\* lines 878-888: a file is processed when audio/<dir>/<baseName>.mp3 cannot
\* be accessed
ToProcess(file, fs) == IsScriptFile(file.ext) /\ fs[<<"out", file.baseName>>].state = "absent"

\* line 933: the number printed when the loop is over
ReportedCountSucceeded == Cardinality({d \in DOMAIN outcome : outcome[d] = "ok"})
ReportedCount == Len(filesToProcess)

pureVars == <<splitVars, combineVars, bgmVars, parseVars, reassembleVars, dockerVars>>

\* the i-th smallest member of a set of numbers
Nth(S, i) == CHOOSE x \in S : Cardinality({y \in S : y < x}) = i - 1

\* the listings of a texts directory of at most MaxFiles files, when the
\* base names in existing have their MP3 already (a file that is never read
\* has no content to speak of)
Listings(existing) ==
  LET WillBeRead(i) == IsScriptFile(FileNames[i][2]) /\ FileNames[i][1] \notin existing
      Contents(S) == {docs \in [S -> BatchDocs] :
                        \A i \in S : ~WillBeRead(i) => docs[i] = MonoDoc(<<>>)}
  IN  UNION {{[i \in 1..Cardinality(S) |->
                 ScriptFile(FileNames[Nth(S, i)][1], FileNames[Nth(S, i)][2], docs[Nth(S, i)])] :
               docs \in Contents(S)} :
             S \in {T \in SUBSET DOMAIN FileNames : Cardinality(T) \in 1..MaxFiles}}

InitRun ==
  /\ IdleSplit /\ IdleCombine /\ IdleBgm /\ IdleParse /\ IdleReassemble /\ IdleDocker
  /\ cmd \in {"generate", "batch"}
  /\ options \in [bgm : {"none", "present", "missing"},
                  ext : IF cmd = "batch" THEN {"mp3"} ELSE {"mp3", "wav"},
                  characterIdGiven : BOOLEAN,
                  outputDirExists : IF cmd = "batch" THEN {TRUE} ELSE BOOLEAN]
  /\ \E existing \in SUBSET BaseNames :
       /\ fsys = [p \in Paths |-> IF p[1] = "out" /\ p[2] \in existing THEN Old ELSE Absent]
       /\ IF cmd = "batch"
          THEN /\ scriptFiles \in Listings(existing)
               /\ filesToProcess = <<>>
               /\ batchPc = "listing"
          ELSE /\ existing \subseteq {1}
               /\ options.outputDirExists \/ existing = {}
               /\ scriptFiles = <<>>
               /\ \E doc \in Docs : filesToProcess = <<ScriptFile(1, "txt", doc)>>
               /\ batchPc = "running"
  /\ fileIdx = 1 /\ runPc = "idle"
  /\ calls = <<>> /\ lineResults = <<>>
  /\ completedCount = 0
  /\ outOfOrder = FALSE
  /\ audioBuffers = <<>>
  /\ finalCombineCalled = [d \in 1..Len(filesToProcess) |-> FALSE]
  /\ outcome = [d \in 1..Len(filesToProcess) |-> "none"]

\* lines 860-902: list the directory, keep the .script / .txt files without
\* an MP3; with none to process the command returns
SelectFiles ==
  /\ batchPc = "listing"
  /\ LET selected == SelectSeq(scriptFiles, LAMBDA file : ToProcess(file, fsys))
     IN  /\ filesToProcess' = selected
         /\ batchPc' = IF selected = <<>> THEN "nothing" ELSE "running"
         /\ finalCombineCalled' = [d \in 1..Len(selected) |-> FALSE]
         /\ outcome' = [d \in 1..Len(selected) |-> "none"]
  /\ UNCHANGED <<pureVars, cmd, scriptFiles, options, fileIdx, runPc, calls,
                 completedCount, outOfOrder, lineResults, audioBuffers, fsys>>

\* lines 385-485 and 511-545: validation, then every unit is dispatched
StartGenerateAudio ==
  /\ batchPc = "running" /\ runPc = "idle"
  /\ outOfOrder' = FALSE
  /\ completedCount' = 0
  /\ IF ValidationError(Doc(fileIdx), options) # ""
     THEN /\ RunEnds("failed")
          /\ UNCHANGED <<calls, lineResults>>
     ELSE /\ calls' = calls @@ [k \in KeysOf(fileIdx) |->
                                      [st |-> "query", buffer |-> ShortBuffer, timer |-> FALSE]]
          /\ lineResults' = IF Doc(fileIdx).dialogue
                            THEN lineResults @@ [k \in {fileIdx} \X LinesOf(fileIdx) |->
                                                   [st |-> "pending", buffer |-> ShortBuffer]]
                            ELSE lineResults
          /\ runPc' = "awaiting"
          /\ UNCHANGED <<fileIdx, batchPc, outcome>>
  /\ UNCHANGED <<pureVars, cmd, scriptFiles, filesToProcess, options,
                 audioBuffers, finalCombineCalled, fsys>>

\* k is answered while a unit dispatched before it is still unanswered
ResolvesBeforeEarlier(k) ==
  \E j \in DOMAIN calls :
    /\ j[1] = k[1]
    /\ (j[2] < k[2] \/ (j[2] = k[2] /\ j[3] < k[3]))
    /\ calls[j].st \in {"query", "synth"}

\* lines 481 and 541: completedCount++ in the then-handler of a call
OnUnitCompletedLost(completedCount_) == completedCount_
OnUnitCompleted(completedCount_) == completedCount_ + 1

\* part_000 67-83: the timer of a call is set once its audio_query request
\* has answered with success, before the synthesis request is sent
SetTimeoutNever(ok) == FALSE
SetTimeout(ok) == ok

\* What a call brings to a run that has ended reaches nobody (its handlers
\* write the counter and the result slots of that run's closure): such a
\* call is kept as in flight until it settles, and as "settled" after.
SettledRetry(k, st) == IF st = "failed" THEN "query" ELSE st
Settled(k, st) == IF Current(k[1]) THEN st ELSE "settled"

\* part_000 62-72: the audio_query request of one call answers
QueryResponds(k, ok) ==
  /\ batchPc # "exit1"
  /\ k \in DOMAIN calls /\ calls[k].st = "query"
  /\ Settle([calls EXCEPT ![k].st = IF ok THEN "synth" ELSE Settled(k, "failed"),
                          ![k].timer = SetTimeout(ok)],
            lineResults, k[1])
  /\ UNCHANGED <<pureVars, cmd, scriptFiles, filesToProcess, options, completedCount,
                 outOfOrder, audioBuffers, finalCombineCalled, fsys>>

\* part_000 80-109 and voiceService.ts 480-484 / 540-544: the synthesis
\* request answers with audio, and the call's then-handler runs
SynthResolves(k, buffer) ==
  /\ batchPc # "exit1"
  /\ k \in DOMAIN calls /\ calls[k].st = "synth"
  /\ calls' = [calls EXCEPT ![k] =
                 IF Current(k[1]) THEN [st |-> "ok", buffer |-> buffer, timer |-> FALSE]
                 ELSE [st |-> "settled", buffer |-> ShortBuffer, timer |-> FALSE]]
  /\ completedCount' = IF Current(k[1]) THEN OnUnitCompleted(completedCount)
                       ELSE completedCount
  /\ outOfOrder' = (outOfOrder \/ (Current(k[1]) /\ ResolvesBeforeEarlier(k)))
  /\ UNCHANGED <<pureVars, cmd, scriptFiles, filesToProcess, options, lineResults, controlVars,
                 audioBuffers, finalCombineCalled, fsys>>

\* part_000 95-109: the synthesis request fails (status, connection); the
\* finally clause clears the timer
SynthRejects(k) ==
  /\ batchPc # "exit1"
  /\ k \in DOMAIN calls /\ calls[k].st = "synth"
  /\ Settle([calls EXCEPT ![k].st = Settled(k, "failed"), ![k].timer = FALSE],
            lineResults, k[1])
  /\ UNCHANGED <<pureVars, cmd, scriptFiles, filesToProcess, options, completedCount,
                 outOfOrder, audioBuffers, finalCombineCalled, fsys>>

\* part_000 81-83 and 102-109: the timer of call k fires, controller.abort()
\* ends the synthesis request of that call with an AbortError, and the call
\* throws 'Voice synthesis timed out after 60 minutes.'
SynthTimesOut(k) ==
  /\ batchPc # "exit1"
  /\ k \in DOMAIN calls /\ calls[k].timer
  /\ Settle([calls EXCEPT ![k].st = Settled(k, "failed"), ![k].timer = FALSE],
            lineResults, k[1])
  /\ UNCHANGED <<pureVars, cmd, scriptFiles, filesToProcess, options, completedCount,
                 outOfOrder, audioBuffers, finalCombineCalled, fsys>>

\* lines 487-498: all chunks of a line are there; they are combined (the
\* line combines of a run that has ended reach nobody and are left out)
LineCombine(d, l) ==
  /\ Current(d)
  /\ <<d, l>> \in DOMAIN lineResults /\ lineResults[<<d, l>>].st = "pending"
  /\ PromiseAll(ChunkStates(calls, d, l)) = "fulfilled"
  /\ LET combined == CombineAudioBuffers(SortedChunks(calls, d, l))
     IN  Settle(calls,
                [lineResults EXCEPT ![<<d, l>>] =
                   [st |-> IF combined.ok THEN "ok" ELSE "failed",
                    buffer |-> combined.buffer]],
                d)
  /\ UNCHANGED <<pureVars, cmd, scriptFiles, filesToProcess, options, completedCount,
                 outOfOrder, audioBuffers, finalCombineCalled, fsys>>

\* lines 502-506 and 548-552: the awaited group is complete; sort
AwaitResolves ==
  /\ runPc = "awaiting"
  /\ Awaited(calls, lineResults, fileIdx) = "fulfilled"
  /\ audioBuffers' = SortedResults(calls, lineResults, fileIdx)
  /\ calls' = ReleaseCalls(calls, fileIdx)
  /\ lineResults' = ReleaseLines(lineResults, fileIdx)
  /\ runPc' = "combine"
  /\ UNCHANGED <<pureVars, cmd, scriptFiles, filesToProcess, options, fileIdx, batchPc, outcome,
                 completedCount, outOfOrder, finalCombineCalled, fsys>>

\* lines 563-570: the final combine, and the temporary WAV file
FinalCombine(res) ==
  /\ runPc = "combine"
  /\ finalCombineCalled' = [finalCombineCalled EXCEPT ![fileIdx] = TRUE]
  /\ audioBuffers' = <<>>
  /\ IF ~CombineAudioBuffers(audioBuffers).ok
     THEN /\ RunEnds("failed")
          /\ UNCHANGED fsys
     ELSE IF res = "ok"
     THEN /\ fsys' = [fsys EXCEPT ![Path("temp", fileIdx)] = File("complete", fileIdx)]
          /\ runPc' = "tempWritten"
          /\ UNCHANGED <<fileIdx, batchPc, outcome>>
     ELSE /\ fsys' = [fsys EXCEPT ![Path("temp", fileIdx)] = File("partial", fileIdx)]
          /\ RunEnds("failed")
  /\ UNCHANGED <<pureVars, cmd, scriptFiles, filesToProcess, options, calls,
                 completedCount, outOfOrder, lineResults>>

\* lines 573-659: ffprobe on both files, then ffmpeg mixes into the
\* temporary output (the command it is given is MixCommand); a failing
\* ffmpeg may leave a part of its output file
MixBgm(res) ==
  /\ runPc = "tempWritten" /\ options.bgm = "present"
  /\ IF res = "ok"
     THEN /\ fsys' = [fsys EXCEPT ![Path("tempbgm", fileIdx)] = File("complete", fileIdx)]
          /\ runPc' = "mixed"
          /\ UNCHANGED <<fileIdx, batchPc, outcome>>
     ELSE /\ fsys' = IF res = "mixFailedPartial"
                     THEN [fsys EXCEPT ![Path("tempbgm", fileIdx)] = File("partial", fileIdx)]
                     ELSE fsys
          /\ RunEnds("failed")
  /\ UNCHANGED <<pureVars, cmd, scriptFiles, filesToProcess, options, calls,
                 completedCount, outOfOrder, lineResults, audioBuffers, finalCombineCalled>>

\* lines 661-666: rename the mix to the output path, unlink the WAV
MoveBgmOutput(res) ==
  /\ runPc = "mixed"
  /\ LET renamed == Rename(fsys, Path("tempbgm", fileIdx), OutputPath(fileIdx))
     IN  CASE res = "ok" ->
                /\ fsys' = Unlink(renamed, Path("temp", fileIdx))
                /\ RunEnds("ok")
           [] res = "renameFailed" ->
                /\ fsys' = fsys
                /\ RunEnds("failed")
           [] res = "unlinkFailed" ->
                /\ fsys' = renamed
                /\ RunEnds("failed")
  /\ UNCHANGED <<pureVars, cmd, scriptFiles, filesToProcess, options, calls,
                 completedCount, outOfOrder, lineResults, audioBuffers, finalCombineCalled>>

\* lines 673-693: ffmpeg converts the WAV, saving at the output path
ConvertMp3(res) ==
  /\ runPc = "tempWritten" /\ options.bgm = "none" /\ options.ext = "mp3"
  /\ IF res = "ok"
     THEN /\ fsys' = [fsys EXCEPT ![OutputPath(fileIdx)] = File("complete", fileIdx)]
          /\ runPc' = "converted"
          /\ UNCHANGED <<fileIdx, batchPc, outcome>>
     ELSE /\ fsys' = IF res = "failedPartial"
                     THEN [fsys EXCEPT ![OutputPath(fileIdx)] = File("partial", fileIdx)]
                     ELSE fsys
          /\ RunEnds("failed")
  /\ UNCHANGED <<pureVars, cmd, scriptFiles, filesToProcess, options, calls,
                 completedCount, outOfOrder, lineResults, audioBuffers, finalCombineCalled>>

\* lines 695-697: unlink the WAV after the conversion
UnlinkTemp(res) ==
  /\ runPc = "converted"
  /\ IF res = "ok"
     THEN /\ fsys' = Unlink(fsys, Path("temp", fileIdx))
          /\ RunEnds("ok")
     ELSE /\ fsys' = fsys
          /\ RunEnds("failed")
  /\ UNCHANGED <<pureVars, cmd, scriptFiles, filesToProcess, options, calls,
                 completedCount, outOfOrder, lineResults, audioBuffers, finalCombineCalled>>

\* lines 698-702: the WAV is the output
KeepWav(res) ==
  /\ runPc = "tempWritten" /\ options.bgm = "none" /\ options.ext = "wav"
  /\ IF res = "ok"
     THEN /\ fsys' = Rename(fsys, Path("temp", fileIdx), OutputPath(fileIdx))
          /\ RunEnds("ok")
     ELSE /\ fsys' = fsys
          /\ RunEnds("failed")
  /\ UNCHANGED <<pureVars, cmd, scriptFiles, filesToProcess, options, calls,
                 completedCount, outOfOrder, lineResults, audioBuffers, finalCombineCalled>>

Next ==
  \/ SelectFiles
  \/ StartGenerateAudio
  \/ \E k \in DOMAIN calls : \E ok \in BOOLEAN : QueryResponds(k, ok)
  \/ \E k \in DOMAIN calls : \E buffer \in EngineBuffers(k) : SynthResolves(k, buffer)
  \/ \E k \in DOMAIN calls : SynthRejects(k)
  \/ \E k \in DOMAIN calls : SynthTimesOut(k)
  \/ \E dl \in DOMAIN lineResults : LineCombine(dl[1], dl[2])
  \/ AwaitResolves
  \/ \E res \in {"ok", "writeFailed"} : FinalCombine(res)
  \/ \E res \in {"ok", "probeFailed", "mixFailed", "mixFailedPartial"} : MixBgm(res)
  \/ \E res \in {"ok", "renameFailed", "unlinkFailed"} : MoveBgmOutput(res)
  \/ \E res \in {"ok", "failed", "failedPartial"} : ConvertMp3(res)
  \/ \E res \in {"ok", "failed"} : UnlinkTemp(res)
  \/ \E res \in {"ok", "failed"} : KeepWav(res)

Init == InitRun
Spec == Init /\ [][Next]_vars

(***************************************************************************)
(* Claims about generateAudio and the batch loop (checked under Spec).     *)
(***************************************************************************)
\* the labels <<line, chunk>> of the units of document d, in key order
ExpectedLabels(d) ==
  Concat([l \in LinesOf(d) |-> [c \in ChunksOf(d, l) |-> <<l, c>>]])

PayloadOf(buffers) == Concat([p \in 1..Len(buffers) |-> buffers[p].payload])

\* C1: whatever the order in which the calls were answered, the list handed
\* to the final combine holds the audio of the units in the order of
\* lineIndex, then chunkIndex, one buffer per line (monologue: per chunk).
C1_OrderInvariant ==
  runPc = "combine" =>
    /\ PayloadOf(audioBuffers) = ExpectedLabels(fileIdx)
    /\ Len(audioBuffers) = IF Doc(fileIdx).dialogue
                           THEN Len(Doc(fileIdx).lines)
                           ELSE Len(Chunks(fileIdx)[1])

C1_Witness ==
  /\ runPc = "combine"
  /\ outOfOrder
  /\ Doc(fileIdx).dialogue
  /\ Len(audioBuffers) >= 2
  /\ Len(ExpectedLabels(fileIdx)) > Len(audioBuffers)

FailedCalls(d) == {k \in DOMAIN calls : k[1] = d /\ calls[k].st = "failed"}

\* C2: once a call of a run has failed, the run has failed, its final combine
\* is never called, it writes no temporary file and puts nothing at the
\* output path, whatever its other calls do.
C2_FailFast ==
  \A d \in DOMAIN outcome :
    FailedCalls(d) # {} =>
      /\ outcome[d] = "failed"
      /\ ~finalCombineCalled[d]
      /\ fsys[Path("temp", d)] = Absent
      /\ fsys[Path("tempbgm", d)] = Absent
      /\ fsys[OutputPath(d)].by # d

C2_Witness ==
  \E d \in DOMAIN outcome :
    /\ FailedCalls(d) # {}
    /\ outcome[d] = "failed"
    /\ \E j \in DOMAIN calls : j[1] = d /\ calls[j].st = "settled"

Succeeded == {d \in DOMAIN outcome : outcome[d] = "ok"}
Processed == {d \in DOMAIN outcome : outcome[d] # "none"}

\* C11 (as stated): when the batch loop is over, the count reported is the
\* number of documents whose generation succeeded.
C11_ReportsSucceeded ==
  (cmd = "batch" /\ batchPc = "done") => ReportedCount = Cardinality(Succeeded)

\* C11 (amended): a batch whose loop has started is never ended by a
\* document, and when the loop is over the count reported is the number of
\* documents that were selected and processed, the failed ones included.
C11_ReportsProcessed ==
  cmd = "batch" =>
    /\ batchPc # "exit1"
    /\ batchPc = "done" =>
         /\ ReportedCount = Cardinality(Processed)
         /\ ReportedCount = Len(outcome)

C11_Witness ==
  /\ cmd = "batch" /\ batchPc = "done"
  /\ ReportedCount = 2
  /\ Cardinality(Succeeded) = 1

\* the files of the listing that had no MP3 when the command started
SelectedAtStart ==
  SelectSeq(scriptFiles,
            LAMBDA file : IsScriptFile(file.ext)
                            /\ fsys[<<"out", file.baseName>>].state # "old")

\* C12: in a batch, generateAudio is invoked once for each .script / .txt
\* file whose MP3 did not exist at the start and for no other file, and no
\* step changes an output file that exists.
C12_SkipExisting ==
  [][cmd = "batch" =>
       /\ batchPc # "listing" => filesToProcess = SelectedAtStart
       /\ \A b \in BaseNames :
            fsys[<<"out", b>>].state # "absent" => fsys'[<<"out", b>>] = fsys[<<"out", b>>]]_vars

\* what C13 lists: empty text, text over the ceiling, no output directory,
\* a declared BGM file that does not exist
Invalid(d) ==
  \/ TextLength(Doc(d)) = 0
  \/ TextLength(Doc(d)) > MAX_TEXT_LENGTH
  \/ ~options.outputDirExists
  \/ options.bgm = "missing"

\* C13: a run on an invalid input fails as soon as it starts, and no
\* generateVoice call of that run is ever issued.
C13_ValidationFirst ==
  \A d \in DOMAIN outcome :
    Invalid(d) =>
      /\ \A k \in DOMAIN calls : k[1] # d
      /\ outcome[d] \in {"none", "failed"}
      /\ (d = fileIdx => runPc = "idle")
      /\ ~finalCombineCalled[d]

C13_Witness ==
  /\ cmd = "generate"
  /\ outcome = <<"failed">>
  /\ TextLength(Doc(1)) > MAX_TEXT_LENGTH
  /\ options.outputDirExists /\ options.bgm = "none" /\ options.characterIdGiven
  /\ calls = <<>>

\* C14: a generate run that has failed has left no file of its own at the
\* output path.
C14_NoPartialOutput ==
  cmd = "generate" =>
    \A d \in DOMAIN outcome :
      outcome[d] = "failed" => fsys[OutputPath(d)].by # d

\* C15: after a successful run its temporary WAV and its temporary mix are
\* gone, and there is a file at its output path.
C15_NoTempAfterSuccess ==
  \A d \in DOMAIN outcome :
    outcome[d] = "ok" =>
      /\ fsys[Path("temp", d)] = Absent
      /\ fsys[Path("tempbgm", d)] = Absent
      /\ fsys[OutputPath(d)].state # "absent"

C15_Witness ==
  \E d \in DOMAIN outcome :
    /\ outcome[d] = "ok"
    /\ options.bgm = "present"
    /\ fsys[OutputPath(d)] = File("complete", d)

Outstanding(k) == calls[k].st \in {"query", "synth"}

\* C16 (as stated): whichever request of a call is outstanding, the timer
\* of the call is set, so that the timeout ends the call.
C16_TimeoutCoversCall ==
  \A k \in DOMAIN calls : Outstanding(k) => calls[k].timer

\* C16 (amended): the timer of a call is set exactly while its synthesis
\* request is outstanding; when it fires that call fails, no other call
\* changes its state, and the run awaiting the call fails.
C16_TimeoutCoversSynthesis ==
  [][\A k \in DOMAIN calls :
       /\ calls[k].timer <=> calls[k].st = "synth"
       /\ (calls[k].timer /\ calls'[k].st = "failed") =>
            /\ \A j \in DOMAIN calls \ {k} : calls'[j].st = calls[j].st
            /\ outcome'[k[1]] = "failed"]_vars

C16_Witness ==
  \E k, j \in DOMAIN calls :
    /\ k[1] = j[1] /\ outcome[k[1]] = "failed"
    /\ calls[k].st = "failed" /\ ~calls[k].timer
    /\ calls[j].st = "synth" /\ calls[j].timer

PendingCalls(d) == {k \in DOMAIN calls : k[1] = d /\ Outstanding(k)}
CombineStarted(d) ==
  \/ finalCombineCalled[d]
  \/ \E dl \in DOMAIN lineResults : dl[1] = d /\ lineResults[dl].st # "pending"

\* C17 (as stated): no combineAudioBuffers call of a run starts while a
\* call of the run is still outstanding.
C17_ReassemblyAfterAll ==
  \A d \in DOMAIN outcome : CombineStarted(d) => PendingCalls(d) = {}

\* C17 (amended): the final sort and combine of a run start only when all
\* its calls have succeeded; the chunks of a dialogue line are combined
\* only when all the calls of that line have succeeded.
C17_ReassemblyAfterGroup ==
  /\ \A d \in DOMAIN outcome :
       (finalCombineCalled[d] \/ (d = fileIdx /\ runPc = "combine")) =>
         \A k \in DOMAIN calls : k[1] = d => calls[k].st = "ok"
  /\ \A dl \in DOMAIN lineResults :
       lineResults[dl].st # "pending" =>
         \A c \in ChunksOf(dl[1], dl[2]) : calls[<<dl[1], dl[2], c>>].st = "ok"

C17_Witness ==
  \E dl \in DOMAIN lineResults :
    /\ lineResults[dl].st = "ok"
    /\ Len(lineResults[dl].buffer.payload) = 2
    /\ PendingCalls(dl[1]) # {}

\* a step in which the then-handler of call k runs
HandlerOf(k) == calls[k].st = "synth" /\ calls'[k].st = "ok"

\* C18 (as stated): the handler of a unit writes the slot of that unit
\* and nothing else.
C18_NoSharedState ==
  [][\A k \in DOMAIN calls :
       HandlerOf(k) =>
         /\ \A j \in DOMAIN calls \ {k} : calls'[j] = calls[j]
         /\ completedCount' = completedCount]_vars

\* C18 (amended): the handler of a unit writes the slot of that unit and
\* adds one to the counter the handlers of the run share, and nothing else;
\* the counter is the number of units of the run that have completed.
C18_SharedCounterOnly ==
  [][/\ \A k \in DOMAIN calls :
          HandlerOf(k) =>
            /\ \A j \in DOMAIN calls \ {k} : calls'[j] = calls[j]
            /\ completedCount' = completedCount + 1
            /\ lineResults' = lineResults /\ audioBuffers' = audioBuffers
     /\ runPc' = "awaiting" =>
          completedCount' = Cardinality({k \in DOMAIN calls' :
                                           k[1] = fileIdx' /\ calls'[k].st = "ok"})]_vars

C18_Witness ==
  /\ runPc = "awaiting"
  /\ completedCount = 2
  /\ outOfOrder
  /\ PendingCalls(fileIdx) # {}

CallsOf(cs, d) == {k \in DOMAIN cs : k[1] = d}

\* C22: the units of a run are passed to generateVoice together, once: a
\* call that has been issued is never issued again, a call that has failed
\* or succeeded stays so, calls are issued only for a document that has
\* had none, all its units at once, and the end of a run is final.
C22_NoRetryNoResume ==
  [][/\ \A k \in DOMAIN calls :
          /\ k \in DOMAIN calls'
          /\ calls[k].st # "query" => calls'[k].st # "query"
          /\ calls[k].st \in {"failed", "ok", "settled"} => calls'[k].st = calls[k].st
     /\ \A d \in DOMAIN outcome :
          /\ CallsOf(calls', d) # CallsOf(calls, d) =>
               /\ CallsOf(calls, d) = {}
               /\ CallsOf(calls', d) = KeysOf(d)
               /\ d = fileIdx /\ outcome[d] = "none"
          /\ outcome[d] # "none" =>
               /\ outcome'[d] = outcome[d]
               /\ finalCombineCalled'[d] = finalCombineCalled[d]
               /\ ~(d = fileIdx' /\ runPc' # "idle")]_vars

C22_Witness ==
  \E d \in DOMAIN outcome :
    /\ outcome[d] = "failed"
    /\ ~Doc(d).dialogue
    /\ FailedCalls(d) # {}
    /\ PendingCalls(d) # {}
    /\ batchPc = "exit1"

\* C28: in a batch every call that is outstanding belongs to the document
\* whose run is going on.
C28_CallsOfCurrentDocumentOnly ==
  cmd = "batch" =>
    \A k \in DOMAIN calls : Outstanding(k) => k[1] = fileIdx

(***************************************************************************)
(* Claims about splitText (checked under SpecSplit).                       *)
(***************************************************************************)
StripWhitespace(s) == SelectSeq(s, LAMBDA ch : ch \notin Whitespace)

\* out is got from in by deleting whitespace characters and nothing else
RECURSIVE DeletesOnlyWhitespace(_, _)
DeletesOnlyWhitespace(out, in) ==
  IF in = <<>> THEN out = <<>>
  ELSE \/ /\ out # <<>>
          /\ Head(out) = Head(in)
          /\ DeletesOnlyWhitespace(Tail(out), Tail(in))
       \/ /\ Head(in) \in Whitespace
          /\ DeletesOnlyWhitespace(out, Tail(in))

SplitDone == sPc \in {"split", "resplit"}

\* C4: the chunks of splitText(text, maxLength), concatenated in order, are
\* the text with nothing but whitespace removed: every non-whitespace
\* character is kept, once and in its place.
C4_SplitKeepsText ==
  SplitDone =>
    /\ StripWhitespace(Concat(sChunks)) = StripWhitespace(sText)
    /\ DeletesOnlyWhitespace(Concat(sChunks), sText)

C4_Witness ==
  /\ sPc = "split"
  /\ Len(sChunks) >= 2
  /\ Concat(sChunks) # sText
  /\ \E k \in 1..Len(sText) : sText[k] = Period

\* C5: every chunk of splitText(text, maxLength) is at most maxLength long.
C5_ChunksBounded ==
  SplitDone => \A k \in 1..Len(sChunks) : Len(sChunks[k]) <= sMax

C5_Witness ==
  /\ sPc = "split"
  /\ Len(sChunks) >= 3
  /\ \E k \in 1..Len(sChunks) : Len(sChunks[k]) = sMax
  /\ \E k \in 1..Len(sChunks) : Len(sChunks[k]) < sMax

\* C6 as stated: splitting the concatenation of the chunks again gives the
\* same chunks, for every text.
C6_Idempotent ==
  sPc = "resplit" => sRe = sChunks

NoWhitespaceIn(s) == \A k \in 1..Len(s) : s[k] \notin Whitespace

\* C6 as amended: splitting the concatenation of the chunks again gives the
\* same chunks for every text that holds no whitespace character.
C6_IdempotentWithoutWhitespace ==
  (sPc = "resplit" /\ NoWhitespaceIn(sText)) => sRe = sChunks

C6_Witness ==
  /\ sPc = "resplit"
  /\ NoWhitespaceIn(sText)
  /\ Len(sChunks) >= 2
  /\ Len(sChunks[1]) < sMax
  /\ sRe = sChunks

\* the first maxLength characters of text hold a terminator
HasPeriodInWindow(text, maxLength) ==
  \E k \in 1..maxLength : k <= Len(text) /\ text[k] = Period

\* the cut C25 describes for a text longer than maxLength: behind the last
\* terminator of its first maxLength characters, at maxLength without one
CutAt(text, maxLength) ==
  IF HasPeriodInWindow(text, maxLength)
  THEN CHOOSE k \in 1..maxLength :
         /\ text[k] = Period
         /\ \A j \in (k + 1)..maxLength : text[j] # Period
  ELSE maxLength

\* C25: the first chunk of a text longer than maxLength is the text up to
\* and including the last terminator of its first maxLength characters, or
\* its first maxLength characters when there is none, and the chunks after
\* it are those of what remains; every chunk but the last ends with the
\* terminator or is exactly maxLength long, and the last chunk is at most
\* maxLength long; a text of at most maxLength is one chunk.
C25_CutAtLastTerminator ==
  SplitDone =>
    /\ Len(sText) > sMax =>
         /\ sChunks # <<>>
         /\ sChunks[1] = SubSeq(sText, 1, CutAt(sText, sMax))
         /\ Tail(sChunks) =
              SplitText(Trim(SubSeq(sText, CutAt(sText, sMax) + 1, Len(sText))), sMax)
    /\ (Len(sText) > 0 /\ Len(sText) <= sMax) => sChunks = <<sText>>
    /\ \A k \in 1..Len(sChunks) :
         /\ Len(sChunks[k]) >= 1 /\ Len(sChunks[k]) <= sMax
         /\ k < Len(sChunks) =>
              \/ sChunks[k][Len(sChunks[k])] = Period
              \/ Len(sChunks[k]) = sMax

C25_Witness ==
  /\ sPc = "split"
  /\ sMax = 3
  /\ sText = <<"a", Period, Period, "b", "a">>
  /\ sChunks = << <<"a", Period, Period>>, <<"b", "a">> >>

(***************************************************************************)
(* Claims about combineAudioBuffers (checked under SpecCombine).           *)
(***************************************************************************)
\* C3: two or more decodable buffers of which a later one declares another
\* format than the first are rejected with a format error, without output.
C3_FormatMismatchRejected ==
  (/\ cPc = "done"
   /\ Len(cIn) >= 2
   /\ \A k \in 1..Len(cIn) : cIn[k].riff = "ok"
   /\ \E k \in 2..Len(cIn) : cIn[k].format # cIn[1].format)
  => (~cOut.ok /\ cOut.error = "format mismatch")

\* C7: one buffer is returned as it is, also one that does not decode.
C7_SinglePassthrough ==
  (cPc = "done" /\ Len(cIn) = 1) => cOut = Resolved(cIn[1])

C7_Witness ==
  /\ cPc = "done"
  /\ Len(cIn) = 1
  /\ cIn[1].riff = "corrupt"
  /\ cOut.ok

\* C8: an empty list of buffers is rejected with an error.
C8_EmptyRejected ==
  (cPc = "done" /\ Len(cIn) = 0) =>
    (~cOut.ok /\ cOut.error = "No audio buffers to combine")

C8_Witness ==
  cPc = "done" /\ cIn = <<>> /\ ~cOut.ok

\* where the payload of the k-th buffer starts in the combined payload
RECURSIVE Offset(_, _)
Offset(buffers, k) ==
  IF k = 1 THEN 0 ELSE Offset(buffers, k - 1) + Len(buffers[k - 1].payload)

\* C24: two or more buffers that all decode are combined into a waveform
\* with the format of the first buffer and, as payload, the payloads of the
\* buffers one after the other in input order, nothing dropped, repeated
\* or moved.
C24_ConcatenatesInOrder ==
  (/\ cPc = "done"
   /\ Len(cIn) >= 2
   /\ \A k \in 1..Len(cIn) : cIn[k].riff = "ok")
  => /\ cOut.ok
     /\ cOut.buffer.riff = "ok"
     /\ cOut.buffer.format = cIn[1].format
     /\ Len(cOut.buffer.payload) = Offset(cIn, Len(cIn) + 1)
     /\ \A k \in 1..Len(cIn) : \A i \in 1..Len(cIn[k].payload) :
          cOut.buffer.payload[Offset(cIn, k) + i] = cIn[k].payload[i]

C24_Witness ==
  /\ cPc = "done"
  /\ Len(cIn) = 3
  /\ \A k \in 1..3 : cIn[k].riff = "ok"
  /\ cIn[3].format # cIn[1].format
  /\ cOut.ok
  /\ cOut.buffer.payload = <<2, 1>>
  /\ cIn[2].payload = <<>>

(***************************************************************************)
(* Claim about the mix command (checked under SpecBgm).                    *)
(***************************************************************************)
BgmInputCount ==
  Cardinality({k \in DOMAIN command.inputs : command.inputs[k] = "bgm"})

HasConcat == \E k \in DOMAIN command.filters : command.filters[k] = "concat"

\* C9: a background shorter than the voice is given loopCount times, with
\* loopCount the least number of copies that cover the voice, and these are
\* concatenated; otherwise it is given once and nothing is concatenated.
C9_LoopCount ==
  /\ LoopCount(125, 40) = 4
  /\ bPc = "built" =>
       IF bgmDuration < voiceDuration
       THEN /\ command.concatN = BgmInputCount
            /\ Len(command.concatInputs) = BgmInputCount
            /\ HasConcat
            /\ BgmInputCount * bgmDuration >= voiceDuration
            /\ voiceDuration > (BgmInputCount - 1) * bgmDuration
       ELSE /\ BgmInputCount = 1
            /\ Len(command.inputs) = 2
            /\ ~HasConcat

C9_Witness ==
  /\ bPc = "built"
  /\ bgmDuration < voiceDuration
  /\ voiceDuration % bgmDuration # 0
  /\ BgmInputCount >= 3

(***************************************************************************)
(* Claims about the script parser (checked under SpecParse).               *)
(***************************************************************************)
\* a parenthesised parameter list: '(', some characters other than ')', ')'
IsParamList(s) ==
  /\ Len(s) >= 3 /\ s[1] = "(" /\ s[Len(s)] = ")"
  /\ \A k \in 2..(Len(s) - 1) : s[k] # ")"

\* line is '@', an integer that ends at i, optionally a parameter list,
\* ':' at j, some remaining text
PatternAt(line, i, j) ==
  /\ line[1] = "@"
  /\ i >= 2 /\ i < j /\ j < Len(line)
  /\ \A k \in 2..i : line[k] \in Digits
  /\ (j = i + 1 \/ IsParamList(SubSeq(line, i + 1, j - 1)))
  /\ line[j] = ":"

DialoguePattern(line) == \E i, j \in 1..Len(line) : PatternAt(line, i, j)

\* content[a..b] is a whole line of content
IsLineOf(content, a, b) ==
  /\ a <= b
  /\ a = 1 \/ content[a - 1] = LineFeed
  /\ b = Len(content) \/ content[b + 1] = LineFeed
  /\ \A k \in a..b : content[k] # LineFeed

HasDialogueLine(content) ==
  \E a, b \in 1..Len(content) :
    IsLineOf(content, a, b) /\ DialoguePattern(Trim(SubSeq(content, a, b)))

\* C19: isDialogueScript answers true exactly when some line of the text,
\* trimmed, is '@', an integer id, optionally a parenthesised parameter
\* list, ':' and a non-empty remaining text.
C19_DetectsDialogue ==
  pPc \in {"detected", "parsed"} => (pIsDialogue <=> HasDialogueLine(pContent))

C19_Witness ==
  /\ pPc = "detected"
  /\ pContent = <<"a", LineFeed>> \o HelloLine \o <<LineFeed, "b">>
  /\ pIsDialogue

\* what the pairs of a line say about key: the value of the last pair of
\* kind "ok" for it, unset when there is none
ExpectedParam(pairs, key) ==
  LET hits == {k \in 1..Len(pairs) : pairs[k].kind = "ok" /\ pairs[k].key = key}
  IN  IF hits = {} THEN Unset
      ELSE Value(pairs[CHOOSE k \in hits : \A j \in hits : j <= k].value)

Expected(origin) ==
  [characterId |-> origin.id.value, text |-> origin.text,
   pitch |-> ExpectedParam(origin.pairs, "pitch"),
   intonationScale |-> ExpectedParam(origin.pairs, "intonationScale"),
   speed |-> ExpectedParam(origin.pairs, "speed")]

\* C20 (as stated): a line '@<id>(<params>): <text>' is parsed into one
\* DialogueLine with that id and text and exactly the recognized keys of
\* its well-formed pairs set; the other pairs are skipped.
C20_ParsesParameters ==
  (pPc = "parsed" /\ pOrigin.kind = "dlg" /\ pOrigin.pairs # <<>>) =>
    pParsed = <<Expected(pOrigin)>>

\* the parameter list is not empty and has no ')' in it
Delimited(pairs) ==
  /\ JoinPairs(pairs) # <<>>
  /\ \A k \in 1..Len(JoinPairs(pairs)) : JoinPairs(pairs)[k] # ")"

\* C20 (amended): the same, for a line whose parameter list is not empty
\* and holds no ')'; any other line '@<id>(<params>): <text>' is skipped
\* whole.
C20_ParsesDelimitedParameters ==
  (pPc = "parsed" /\ pOrigin.kind = "dlg" /\ pOrigin.pairs # <<>>) =>
    pParsed = IF Delimited(pOrigin.pairs) THEN <<Expected(pOrigin)>> ELSE <<>>

C20_Witness ==
  /\ pPc = "parsed"
  /\ pContent = <<"@", "2", "(">> \o PITCH \o <<"=", "-", "0", ".", "1", ",", " ">>
                  \o SPEED \o <<"=", "1", ".", "2", ")", ":", " ", "t", "e", "x", "t">>
  /\ pParsed = <<[characterId |-> 2, text |-> <<"t", "e", "x", "t">>,
                  pitch |-> Value(-100), intonationScale |-> Unset,
                  speed |-> Value(1200)]>>

ScriptWithSkippedLines ==
  <<"@", "1", ":", " ", "a", "b", "a", LineFeed, LineFeed, "x", LineFeed,
    "@", "2", ":", "b", LineFeed, "@", "3", "(", ")", ":", "c", LineFeed,
    " ", "@", "1", "0", "(", "a", ")", ":", " ", "c", "a", " ">>

\* C30: isDialogueScript answers true exactly when parseDialogueScript
\* emits at least one DialogueLine, so that the dialogue branch of
\* generateAudio never finds an empty list of lines.
C30_DetectionAgreesWithParse ==
  pPc \in {"parsed", "dispatched"} => (pIsDialogue <=> Len(pParsed) >= 1)

C30_Witness ==
  /\ pPc = "parsed"
  /\ pContent = ScriptWithSkippedLines
  /\ pIsDialogue
  /\ Len(pParsed) = 3

\* the lines of content that match the dialogue pattern, as spans
MatchingSpans(content) ==
  {ab \in (1..Len(content)) \X (1..Len(content)) :
     /\ IsLineOf(content, ab[1], ab[2])
     /\ DialoguePattern(Trim(SubSeq(content, ab[1], ab[2])))}

\* the k-th matching line of content, trimmed
KthMatchingLine(content, k) ==
  LET spans == MatchingSpans(content)
      ab == CHOOSE x \in spans : Cardinality({y \in spans : y[1] < x[1]}) = k - 1
  IN  Trim(SubSeq(content, ab[1], ab[2]))

DecimalDigits == <<"0", "1", "2", "3", "4", "5", "6", "7", "8", "9">>
RECURSIVE Decimal(_)
Decimal(digits) ==
  IF digits = <<>> THEN 0
  ELSE 10 * Decimal(SubSeq(digits, 1, Len(digits) - 1))
         + (CHOOSE n \in 0..9 : DecimalDigits[n + 1] = digits[Len(digits)])

\* the id and the text a matching line states
IdOf(line) ==
  LET ij == CHOOSE x \in (1..Len(line)) \X (1..Len(line)) : PatternAt(line, x[1], x[2])
  IN  Decimal(SubSeq(line, 2, ij[1]))
TextOf(line) ==
  LET ij == CHOOSE x \in (1..Len(line)) \X (1..Len(line)) : PatternAt(line, x[1], x[2])
  IN  Trim(SubSeq(line, ij[2] + 1, Len(line)))

UnitKey(unit) == <<unit.lineIndex, unit.chunkIndex>>

\* C26: parseDialogueScript emits one DialogueLine for each line that
\* matches the dialogue pattern, in script order, and skips every other
\* line; in generateAudio the k-th emitted line has lineIndex k, and no two
\* units of a run have the same (lineIndex, chunkIndex).
C26_EmitsMatchingLinesInOrder ==
  /\ pPc \in {"parsed", "dispatched"} =>
       /\ Len(pParsed) = Cardinality(MatchingSpans(pContent))
       /\ \A k \in 1..Len(pParsed) :
            /\ pParsed[k].characterId = IdOf(KthMatchingLine(pContent, k))
            /\ pParsed[k].text = TextOf(KthMatchingLine(pContent, k))
  /\ pPc = "dispatched" =>
       /\ {pUnits[u].lineIndex : u \in 1..Len(pUnits)} = 1..Len(pParsed)
       /\ \A u \in 1..Len(pUnits) :
            /\ pUnits[u].characterId = pParsed[pUnits[u].lineIndex].characterId
            /\ \A v \in 1..Len(pUnits) : u # v => UnitKey(pUnits[u]) # UnitKey(pUnits[v])

C26_Witness ==
  /\ pPc = "dispatched"
  /\ pContent = ScriptWithSkippedLines
  /\ Len(pParsed) = 3
  /\ pParsed[3].characterId = 10 /\ pParsed[3].text = <<"c", "a">>
  /\ Len(pUnits) = 4
  /\ UnitKey(pUnits[2]) = <<1, 1>> /\ UnitKey(pUnits[4]) = <<3, 0>>

\* the units dispatched for the k-th line
UnitsWithLineIndex(k) == SelectSeq(pUnits, LAMBDA unit : unit.lineIndex = k)

\* C21: each line is given one generateVoice call per chunk of its text, and
\* each of these calls has the speaker id of the line and, for pitch,
\* intonationScale and speed, the value the line sets (0 included) or else
\* the default of the run.
C21_OverridesReachEveryChunk ==
  pPc = "dispatched" =>
    /\ \A k \in 1..Len(pParsed) :
         LET units == UnitsWithLineIndex(k)
             line == pParsed[k]
         IN  /\ [c \in 1..Len(units) |-> units[c].text] = SplitText(line.text, RunMaxLength)
             /\ \A c \in 1..Len(units) :
                  /\ units[c].characterId = line.characterId
                  /\ units[c].pitch =
                       IF line.pitch.set THEN line.pitch.value ELSE pDefaults.pitch
                  /\ units[c].intonationScale =
                       IF line.intonationScale.set THEN line.intonationScale.value
                       ELSE pDefaults.intonationScale
                  /\ units[c].speed =
                       IF line.speed.set THEN line.speed.value ELSE pDefaults.speed
    /\ pOrigin.kind = "dlg" =>
         \A u \in 1..Len(pUnits) :
           /\ pUnits[u].characterId = pOrigin.id.value
           /\ pUnits[u].pitch =
                IF ExpectedParam(pOrigin.pairs, "pitch").set
                THEN ExpectedParam(pOrigin.pairs, "pitch").value ELSE pDefaults.pitch
           /\ pUnits[u].speed =
                IF ExpectedParam(pOrigin.pairs, "speed").set
                THEN ExpectedParam(pOrigin.pairs, "speed").value ELSE pDefaults.speed

C21_Witness ==
  /\ pPc = "dispatched"
  /\ pOrigin.kind = "dlg"
  /\ pContent = <<"@", "1", "2", "(">> \o PITCH
                  \o <<" ", "=", " ", "0", ")", ":", " ", "t", "e", "x", "t">>
  /\ pDefaults.pitch = 50
  /\ Len(pUnits) = 2
  /\ \A u \in 1..2 : pUnits[u].pitch = 0 /\ pUnits[u].speed = 800 /\ pUnits[u].characterId = 12

(***************************************************************************)
(* Claim about the two-level reassembly (checked under SpecReassemble).    *)
(***************************************************************************)
\* one combine of all the unit buffers in (lineIndex, chunkIndex) order
FlatCombine(lines) == CombineAudioBuffers(Concat(lines))

AllDecode(lines) ==
  \A l \in 1..Len(lines) : \A c \in 1..Len(lines[l]) : lines[l][c].riff = "ok"

\* C29: when the buffers of all units decode, combining the chunks of each
\* line and then the line buffers gives the waveform of one flat combine
\* of all unit buffers in (lineIndex, chunkIndex) order: the format of the
\* first unit's buffer and the payloads one after the other.
C29_TwoLevelEqualsFlat ==
  (rPc = "done" /\ AllDecode(rLines)) =>
    /\ rTwoLevel.ok
    /\ rTwoLevel.buffer = FlatCombine(rLines).buffer
    /\ rTwoLevel.buffer.format = rLines[1][1].format
    /\ rTwoLevel.buffer.payload = PayloadOf(Concat(rLines))

C29_Witness ==
  /\ rPc = "done"
  /\ Len(rLines) = 2 /\ Len(rLines[1]) = 2 /\ Len(rLines[2]) = 2
  /\ AllDecode(rLines)
  /\ rLines[2][1].format # rLines[1][1].format
  /\ rTwoLevel.ok
  /\ rTwoLevel.buffer.payload = <<1, 2, 2, 1>>

====
